---- MODULE Spec2Model ----
(***************************************************************************)
(* Model of the cpparse command-line argument parser (Argument_Parser,     *)
(* Optional_Info, Positional_Info, Argument_Info, errstr).                  *)
(*                                                                         *)
(* Strings are TLA+ strings; a character is a string of length one.        *)
(* A C++ exception is a record [kind |-> <exception class>, what |-> msg]; *)
(* a normal return is [kind |-> "ok", value |-> v]; std::exit(0) after the *)
(* help text is [kind |-> "exit", status |-> 0].                           *)
(***************************************************************************)
EXTENDS Integers, Sequences, FiniteSets, TLC

VARIABLES
    m_positional_order,  \* std::vector<std::string>
    m_positional_args,   \* name -> Positional_Info (m_value)
    m_optional_order,    \* std::vector<std::string>
    m_optional_args,     \* name -> Optional_Info (m_flag, m_type, m_values)
    m_flags,             \* flag character -> optional name
    scriptname,          \* the global _scriptname of errstr.h
    argc,                \* the caller's argc, passed by reference
    argv,                \* the caller's argv array, argv[1] is C++ argv[0]
    call,                \* the last public call and its inputs
    result,              \* what that call returned or threw
    ncalls               \* number of public calls made so far

vars == <<m_positional_order, m_positional_args, m_optional_order,
          m_optional_args, m_flags, scriptname, argc, argv, call, result,
          ncalls>>

parserVars == <<m_positional_order, m_positional_args, m_optional_order,
                m_optional_args, m_flags>>

(***************************************************************************)
(* Bounds of the model.                                                    *)
(***************************************************************************)
MaxArgs == 3
MaxCalls == 2
MaxIdx == 2

(***************************************************************************)
(* Outcomes of a call.                                                     *)
(***************************************************************************)
Ok(v) == [kind |-> "ok", value |-> v]

Throw(type, msg) == [kind |-> type, what |-> msg]

Exit(code) == [kind |-> "exit", status |-> code]

\* the process is terminated by a signal
Abort(signal) == [kind |-> "abort", signal |-> signal]

(***************************************************************************)
(* Character classes of the regular expressions.                           *)
(***************************************************************************)
Lower == {"a", "b", "c", "d", "e", "f", "g", "h", "i", "j", "k", "l", "m",
          "n", "o", "p", "q", "r", "s", "t", "u", "v", "w", "x", "y", "z"}

Upper == {"A", "B", "C", "D", "E", "F", "G", "H", "I", "J", "K", "L", "M",
          "N", "O", "P", "Q", "R", "S", "T", "U", "V", "W", "X", "Y", "Z"}

Digit == {"0", "1", "2", "3", "4", "5", "6", "7", "8", "9"}

\* [a-zA-Z_]
NameStart == Lower \cup Upper \cup {"_"}

\* [a-zA-Z0-9_-]
NameRest == NameStart \cup Digit \cup {"-"}

\* \w
WordChar == NameStart \cup Digit

CharAt(s, i) == SubSeq(s, i, i)

AllIn(s, from, class) == \A i \in from..Len(s) : CharAt(s, i) \in class

(***************************************************************************)
(* errstr.h                                                                *)
(***************************************************************************)
lerrstr(msg) == "Argument_Parser: " \o msg

errstr(script, msg) == script \o ": " \o msg

(***************************************************************************)
(* Name syntax: the std::regex_match calls of Argument_Parser.             *)
(***************************************************************************)
NO_FLAG == ""

\* where the capture group ([a-zA-Z_][a-zA-Z0-9_-]+) of "--?(...)" starts
NameBegin(name) ==
    IF Len(name) >= 2 /\ CharAt(name, 2) = "-" THEN 3 ELSE 2

\* "\\w[a-zA-Z0-9_-]*"
valid_positional_name(name) ==
    /\ Len(name) >= 1
    /\ CharAt(name, 1) \in WordChar
    /\ AllIn(name, 2, NameRest)

\* "-([a-zA-Z_]|-?[a-zA-Z_][a-zA-Z0-9_-]+)"
valid_option_name(name) ==
    /\ Len(name) >= 2
    /\ CharAt(name, 1) = "-"
    /\ \/ Len(name) = 2 /\ CharAt(name, 2) \in NameStart
       \/ /\ Len(name) >= NameBegin(name) + 1
          /\ CharAt(name, NameBegin(name)) \in NameStart
          /\ AllIn(name, NameBegin(name) + 1, NameRest)

\* a plausible slip: the long form needs both dashes, "--(...)"
format_option_name_strict(name) ==
    IF /\ Len(name) >= 4
       /\ SubSeq(name, 1, 2) = "--"
       /\ CharAt(name, 3) \in NameStart
       /\ AllIn(name, 4, NameRest)
    THEN SubSeq(name, 3, Len(name))
    ELSE ""

\* "--?([a-zA-Z_][a-zA-Z0-9_-]+)", the capture or "" when there is no match
format_option_name(name) ==
    IF /\ Len(name) >= NameBegin(name) + 1
       /\ CharAt(name, 1) = "-"
       /\ CharAt(name, NameBegin(name)) \in NameStart
       /\ AllIn(name, NameBegin(name) + 1, NameRest)
    THEN SubSeq(name, NameBegin(name), Len(name))
    ELSE ""

\* "-([a-zA-Z_])", the captured character or NO_FLAG when there is no match
format_flag_name(name) ==
    IF Len(name) = 2 /\ CharAt(name, 1) = "-" /\ CharAt(name, 2) \in NameStart
    THEN CharAt(name, 2)
    ELSE NO_FLAG

(***************************************************************************)
(* The definition registry.  A parser value P bundles the five members.    *)
(***************************************************************************)
FLAG == "FLAG"
SINGLE == "SINGLE"
APPEND == "APPEND"

Parser == [m_positional_order |-> m_positional_order,
           m_positional_args  |-> m_positional_args,
           m_optional_order   |-> m_optional_order,
           m_optional_args    |-> m_optional_args,
           m_flags            |-> m_flags]

EmptyParser == [m_positional_order |-> <<>>,
                m_positional_args  |-> <<>>,
                m_optional_order   |-> <<>>,
                m_optional_args    |-> <<>>,
                m_flags            |-> <<>>]

Positional_Info(name) == [m_name |-> name, m_value |-> ""]

Optional_Info(name, type) ==
    [m_name |-> name, m_flag |-> NO_FLAG, m_type |-> type, m_values |-> <<>>]

\* Each registration returns [kind, parser]: the outcome and the registry
\* it leaves behind.
Registered(P) == [kind |-> "ok", parser |-> P]

Rejected(P, msg) == [kind |-> "logic_error", what |-> lerrstr(msg), parser |-> P]

\* a plausible slip: the optional namespace is not consulted
add_positional_unchecked(P, name) ==
    IF ~valid_positional_name(name)
    THEN Rejected(P, "invalid positional argument name '" \o name \o "'")
    ELSE IF name \in DOMAIN P.m_positional_args
    THEN Rejected(P, "duplicate positional argument name '" \o name \o "'")
    ELSE Registered([P EXCEPT
            !.m_positional_args = (name :> Positional_Info(name)) @@ @,
            !.m_positional_order = Append(@, name)])

add_positional(P, name) ==
    IF ~valid_positional_name(name)
    THEN Rejected(P, "invalid positional argument name '" \o name \o "'")
    ELSE IF name \in DOMAIN P.m_optional_args
    THEN Rejected(P, "positional argument name conflicts with optional argument reference name '" \o name \o "'")
    ELSE IF name \in DOMAIN P.m_positional_args
    THEN Rejected(P, "duplicate positional argument name '" \o name \o "'")
    ELSE Registered([P EXCEPT
            !.m_positional_args = (name :> Positional_Info(name)) @@ @,
            !.m_positional_order = Append(@, name)])

\* a plausible slip: the long name is not looked up among the positionals
add_optional_unchecked(P, long_name, type) ==
    LET formatted_name == format_option_name(long_name) IN
    IF formatted_name = ""
    THEN Rejected(P, "invalid optional argument name: " \o long_name)
    ELSE IF formatted_name \in DOMAIN P.m_optional_args
    THEN Rejected(P, "duplicate optional argument name '" \o formatted_name \o "'")
    ELSE Registered([P EXCEPT
            !.m_optional_args = (formatted_name :> Optional_Info(formatted_name, type)) @@ @,
            !.m_optional_order = Append(@, formatted_name)])

add_optional(P, long_name, type) ==
    LET formatted_name == format_option_name(long_name) IN
    IF formatted_name = ""
    THEN Rejected(P, "invalid optional argument name: " \o long_name)
    ELSE IF formatted_name \in DOMAIN P.m_positional_args
    THEN Rejected(P, "optional argument reference name conflicts with positional argument name '" \o formatted_name \o "'")
    ELSE IF formatted_name \in DOMAIN P.m_optional_args
    THEN Rejected(P, "duplicate optional argument name '" \o formatted_name \o "'")
    ELSE Registered([P EXCEPT
            !.m_optional_args = (formatted_name :> Optional_Info(formatted_name, type)) @@ @,
            !.m_optional_order = Append(@, formatted_name)])

\* a plausible slip: the flag is entered in the table before the long name
\* is declared
add_optional_flag_reserving(P, flag, long_name, type) ==
    LET formatted_name == format_flag_name(flag) IN
    IF formatted_name = NO_FLAG
    THEN Rejected(P, "invalid flag name '" \o flag \o "'")
    ELSE IF formatted_name \in DOMAIN P.m_flags
    THEN Rejected(P, "duplicate flag name '" \o flag \o "'")
    ELSE LET r == add_optional(P, long_name, type) IN
         IF r.kind # "ok"
         THEN [r EXCEPT !.parser.m_flags =
                  (formatted_name :> format_option_name(long_name)) @@ @]
         ELSE LET name == format_option_name(long_name) IN
              Registered([r.parser EXCEPT
                  !.m_optional_args[name].m_flag = formatted_name,
                  !.m_flags = (formatted_name :> name) @@ @])

add_optional_flag(P, flag, long_name, type) ==
    LET formatted_name == format_flag_name(flag) IN
    IF formatted_name = NO_FLAG
    THEN Rejected(P, "invalid flag name '" \o flag \o "'")
    ELSE IF formatted_name \in DOMAIN P.m_flags
    THEN Rejected(P, "duplicate flag name '" \o flag \o "'")
    ELSE LET r == add_optional(P, long_name, type) IN
         IF r.kind # "ok"
         THEN r
         ELSE LET name == format_option_name(long_name) IN
              Registered([r.parser EXCEPT
                  !.m_optional_args[name].m_flag = formatted_name,
                  !.m_flags = (formatted_name :> name) @@ @])

\* Argument_Parser(): registers -h/--help
NewParser == add_optional_flag(EmptyParser, "-h", "--help", FLAG).parser

(***************************************************************************)
(* Matching engine: tokenize/classify, then bind.                          *)
(***************************************************************************)
Opt_Token(type, value) == [type |-> type, value |-> value]

\* a plausible slip: a registered flag is passed on as its own character
lookup_formatted_option_name_unresolved(P, script, option_name) ==
    LET flag_name == format_flag_name(option_name) IN
    IF flag_name # NO_FLAG
    THEN IF flag_name \notin DOMAIN P.m_flags
         THEN Throw("runtime_error", errstr(script,
                  "invalid flag '" \o option_name \o "', pass --help to display possible options"))
         ELSE Ok(flag_name)
    ELSE Ok(format_option_name(option_name))

\* Argument_Parser::lookup_formatted_option_name
lookup_formatted_option_name(P, script, option_name) ==
    LET flag_name == format_flag_name(option_name) IN
    IF flag_name # NO_FLAG
    THEN IF flag_name \notin DOMAIN P.m_flags
         THEN Throw("runtime_error", errstr(script,
                  "invalid flag '" \o option_name \o "', pass --help to display possible options"))
         ELSE Ok(P.m_flags[flag_name])
    ELSE Ok(format_option_name(option_name))

\* What a read of *(user_args.end()), the word one past the vector's
\* storage, can yield (line 517).  The read has undefined behaviour: the
\* word is whatever the heap holds there, which can be the pointer of any
\* argument of the call ([at |-> k], k >= 1) or no pointer into argv
\* ([at |-> 0]), and a build that instruments memory accesses aborts at the
\* read.
PastEnd(user_args) ==
    {Ok([at |-> k]) : k \in 0..Len(user_args)} \cup {Abort("SIGABRT")}

\* The word read from slot i of user_args.  Slot Len(user_args) + 1 is
\* *(user_args.end()); every read of it during one call yields past_end.
Slot(user_args, i, past_end) ==
    IF i <= Len(user_args) THEN Ok([at |-> i]) ELSE past_end

\* the C string a slot's pointer refers to
CStr(user_args, ptr) == user_args[ptr.at]

\* Argument_Parser::prematch_optional_arg: Ok(TRUE) when the option takes
\* the next argument as its value, Ok(FALSE) for a flag.
prematch_optional_arg(P, script, user_args, option_name, repeated, next_arg, args_end) ==
    IF option_name = "help"
    THEN Exit(0)
    ELSE IF option_name \notin DOMAIN P.m_optional_args
    THEN Throw("runtime_error", errstr(script,
             "invalid option '" \o option_name \o "', pass --help to display possible options"))
    ELSE IF P.m_optional_args[option_name].m_type = FLAG
    THEN IF repeated
         THEN Throw("runtime_error", errstr(script,
                  "'" \o option_name \o "' should only be specified once"))
         ELSE Ok(FALSE)
    ELSE IF next_arg = args_end
    THEN Throw("runtime_error", errstr(script, "'" \o option_name \o "' requires a value"))
    ELSE IF valid_option_name(CStr(user_args, next_arg))
    THEN Throw("runtime_error", errstr(script, "'" \o option_name \o "' requires a value"))
    ELSE IF P.m_optional_args[option_name].m_type # APPEND /\ repeated
    THEN Throw("runtime_error", errstr(script,
             "'" \o option_name \o "' should only be specified once"))
    ELSE Ok(TRUE)

\* the end of Argument_Parser::tokenize_args: the positional count check
tokenize_end(P, script, pos_args, opt_tokens) ==
    IF Len(pos_args) < Len(P.m_positional_order)
    THEN Throw("runtime_error", errstr(script,
             "requires positional argument '"
             \o P.m_positional_order[Len(pos_args) + 1] \o "'"))
    ELSE Ok([pos_args |-> pos_args, opt_tokens |-> opt_tokens])

\* The state of the for loop of Argument_Parser::tokenize_args: the iterator
\* it, the locals pos_args, opt_tokens and optional_names, and thrown, which
\* is Ok("running") until an exception or std::exit leaves the loop.
LoopState(it, pos_args, opt_tokens, optional_names, thrown) ==
    [it |-> it, pos_args |-> pos_args, opt_tokens |-> opt_tokens,
     optional_names |-> optional_names, thrown |-> thrown]

\* a plausible slip: the value of an option is not stepped over, so that
\* the walk classifies it again
tokenize_option_rereads(user_args, st, optional_name, valued) ==
    IF valued.kind # "ok"
    THEN [st EXCEPT !.thrown = valued]
    ELSE IF valued.value
    THEN LoopState(st.it + 1, st.pos_args,
             st.opt_tokens \o <<Opt_Token("OPT_NAME", optional_name),
                                Opt_Token("OPT_VAL", user_args[st.it + 1])>>,
             st.optional_names \cup {optional_name}, st.thrown)
    ELSE LoopState(st.it + 1, st.pos_args,
             Append(st.opt_tokens, Opt_Token("FLAG", optional_name)),
             st.optional_names \cup {optional_name}, st.thrown)

\* lines 517-523: the token at it is an option, valued is what
\* prematch_optional_arg returned or threw
tokenize_option(user_args, st, optional_name, valued) ==
    IF valued.kind # "ok"
    THEN [st EXCEPT !.thrown = valued]
    ELSE IF valued.value
    THEN LoopState(st.it + 2, st.pos_args,
             st.opt_tokens \o <<Opt_Token("OPT_NAME", optional_name),
                                Opt_Token("OPT_VAL", user_args[st.it + 1])>>,
             st.optional_names \cup {optional_name}, st.thrown)
    ELSE LoopState(st.it + 1, st.pos_args,
             Append(st.opt_tokens, Opt_Token("FLAG", optional_name)),
             st.optional_names \cup {optional_name}, st.thrown)

\* lines 513-524: one iteration, optional_name is what
\* lookup_formatted_option_name returned or threw.  The arguments of
\* prematch_optional_arg, *std::next(it) and *(user_args.end()), are read
\* before it is called.
tokenize_token(P, script, user_args, st, optional_name, past_end) ==
    IF optional_name.kind # "ok"
    THEN [st EXCEPT !.thrown = optional_name]
    ELSE IF optional_name.value = ""
    THEN [st EXCEPT !.it = @ + 1, !.pos_args = Append(@, user_args[st.it])]
    ELSE IF Slot(user_args, Len(user_args) + 1, past_end).kind # "ok"
    THEN [st EXCEPT !.thrown = Slot(user_args, Len(user_args) + 1, past_end)]
    ELSE tokenize_option(user_args, st, optional_name.value,
             prematch_optional_arg(P, script, user_args, optional_name.value,
                 optional_name.value \in st.optional_names,
                 Slot(user_args, st.it + 1, past_end).value,
                 Slot(user_args, Len(user_args) + 1, past_end).value))

\* the for loop of Argument_Parser::tokenize_args
RECURSIVE tokenize_from(_, _, _, _, _)
tokenize_from(P, script, user_args, st, past_end) ==
    IF st.it > Len(user_args) \/ st.thrown.kind # "ok"
    THEN st
    ELSE tokenize_from(P, script, user_args,
             tokenize_token(P, script, user_args, st,
                 lookup_formatted_option_name(P, script, user_args[st.it]),
                 past_end),
             past_end)

\* what Argument_Parser::tokenize_args does once the loop is left
tokenize_result(P, script, st) ==
    IF st.thrown.kind # "ok"
    THEN st.thrown
    ELSE tokenize_end(P, script, st.pos_args, st.opt_tokens)

\* Argument_Parser::tokenize_args
tokenize_args(P, script, argc_in, argv_in, past_end) ==
    tokenize_result(P, script,
        tokenize_from(P, script, SubSeq(argv_in, 2, argc_in),
            LoopState(1, <<>>, <<>>, {}, Ok("running")), past_end))

\* Argument_Parser::count_opt_args
count_opt_args(tokens) ==
    [name \in {tokens[i].value : i \in {j \in DOMAIN tokens : tokens[j].type \in {"OPT_NAME", "FLAG"}}} |->
        Cardinality({i \in DOMAIN tokens :
            tokens[i].type \in {"OPT_NAME", "FLAG"} /\ tokens[i].value = name})]

\* Argument_Parser::init_matched_opt_args
init_matched_opt_args(arg_tokens) ==
    [name \in DOMAIN count_opt_args(arg_tokens) |-> <<>>]

\* std::unordered_map::operator[] followed by push_back
PushBack(optional_args, key, value) ==
    IF key \in DOMAIN optional_args
    THEN [optional_args EXCEPT ![key] = Append(@, value)]
    ELSE (key :> <<value>>) @@ optional_args

\* a plausible slip: the FLAG case records nothing
match_token_skips_flag(optional_args, token, p_last_optional) ==
    IF token.type = "OPT_VAL"
    THEN PushBack(optional_args, p_last_optional, token.value)
    ELSE optional_args

\* the switch of Argument_Parser::match_opt_args on one token
match_token(optional_args, token, p_last_optional) ==
    IF token.type = "OPT_NAME"
    THEN optional_args
    ELSE IF token.type = "OPT_VAL"
    THEN PushBack(optional_args, p_last_optional, token.value)
    ELSE PushBack(optional_args, token.value, "true")

\* the for loop of Argument_Parser::match_opt_args
RECURSIVE match_from(_, _, _, _)
match_from(arg_tokens, i, optional_args, p_last_optional) ==
    IF i > Len(arg_tokens)
    THEN optional_args
    ELSE match_from(arg_tokens, i + 1,
             match_token(optional_args, arg_tokens[i], p_last_optional),
             IF arg_tokens[i].type = "OPT_NAME"
             THEN arg_tokens[i].value ELSE p_last_optional)

\* Argument_Parser::match_opt_args
match_opt_args(arg_tokens) ==
    match_from(arg_tokens, 1, init_matched_opt_args(arg_tokens), "")

\* what Argument_Parser::match_args returns for the tokenizer's result t
match_result(t) ==
    IF t.kind # "ok"
    THEN t
    ELSE Ok([pos_args |-> t.value.pos_args,
             opt_args |-> match_opt_args(t.value.opt_tokens)])

\* Argument_Parser::match_args
match_args(P, script, argc_in, argv_in, past_end) ==
    match_result(tokenize_args(P, script, argc_in, argv_in, past_end))

\* Argument_Parser::assign_matched_opt
assign_matched_opt(P, optional_args) ==
    [P EXCEPT !.m_optional_args =
        [name \in DOMAIN @ |->
            IF name \in DOMAIN optional_args
            THEN [@[name] EXCEPT !.m_values = optional_args[name]]
            ELSE @[name]]]

\* a plausible slip: the positional buffer is bound back to front
assign_matched_pos_reversed(P, pos_args) ==
    [parser |-> [P EXCEPT !.m_positional_args =
                    [name \in DOMAIN @ |->
                        LET i == CHOOSE j \in DOMAIN P.m_positional_order :
                                     P.m_positional_order[j] = name
                        IN [@[name] EXCEPT !.m_value =
                               pos_args[Len(P.m_positional_order) + 1 - i]]]],
     extra |-> SubSeq(pos_args, Len(P.m_positional_order) + 1, Len(pos_args))]

\* Argument_Parser::assign_matched_pos: the parser with its positionals set,
\* and the positional arguments left over
assign_matched_pos(P, pos_args) ==
    [parser |-> [P EXCEPT !.m_positional_args =
                    [name \in DOMAIN @ |->
                        LET i == CHOOSE j \in DOMAIN P.m_positional_order :
                                     P.m_positional_order[j] = name
                        IN [@[name] EXCEPT !.m_value = pos_args[i]]]],
     extra |-> SubSeq(pos_args, Len(P.m_positional_order) + 1, Len(pos_args))]

\* what Argument_Parser::assign_user_args does with match_args' result m
assign_result(P, m) ==
    IF m.kind # "ok"
    THEN m
    ELSE Ok(assign_matched_pos(assign_matched_opt(P, m.value.opt_args),
                               m.value.pos_args))

\* Argument_Parser::assign_user_args
assign_user_args(P, script, argc_in, argv_in, past_end) ==
    assign_result(P, match_args(P, script, argc_in, argv_in, past_end))

\* a plausible slip: the program name is not counted in argc
remove_matched_short(extra_positional_args, argc_in, argv_in) ==
    [argc |-> Len(extra_positional_args),
     argv |-> [i \in DOMAIN argv_in |->
                  IF i >= 2 /\ i - 1 <= Len(extra_positional_args)
                  THEN extra_positional_args[i - 1]
                  ELSE argv_in[i]]]

\* Argument_Parser::remove_matched: the caller's argc and argv afterwards
remove_matched(extra_positional_args, argc_in, argv_in) ==
    [argc |-> Len(extra_positional_args) + 1,
     argv |-> [i \in DOMAIN argv_in |->
                  IF i >= 2 /\ i - 1 <= Len(extra_positional_args)
                  THEN extra_positional_args[i - 1]
                  ELSE argv_in[i]]]

\* the caller's view after parse_args returned normally
Returned(P, script, r) ==
    [outcome |-> Ok("void"), parser |-> P, argc |-> r.argc, argv |-> r.argv,
     scriptname |-> script]

\* the caller's view after parse_args threw or exited with outcome a
Unwound(P, script, argc_in, argv_in, a) ==
    [outcome |-> a, parser |-> P, argc |-> argc_in, argv |-> argv_in,
     scriptname |-> script]

\* a plausible slip: remove_matched runs with no leftovers when matching fails
parse_args_truncating(P, script, argc_in, argv_in, a) ==
    IF a.kind # "ok"
    THEN Unwound(P, script, 1, argv_in, a)
    ELSE Returned(a.value.parser, script,
             remove_matched(a.value.extra, argc_in, argv_in))

\* line 164 of Argument_Parser::parse_args, a is what assign_user_args
\* returned or threw
parse_args_line(P, script, argc_in, argv_in, a) ==
    IF a.kind # "ok"
    THEN Unwound(P, script, argc_in, argv_in, a)
    ELSE Returned(a.value.parser, script,
             remove_matched(a.value.extra, argc_in, argv_in))

\* a plausible slip: the script name is set after the arguments are matched
parse_args_late_name(P, argc_in, argv_in, past_end) ==
    parse_args_line(P, "", argc_in, argv_in,
        assign_user_args(P, "", argc_in, argv_in, past_end))

\* Argument_Parser::parse_args: outcome, parser, argc, argv and _scriptname
\* after the call; line 163 sets _scriptname to argv[0].  past_end is what
\* the heap gives the call for the word past user_args.
parse_args(P, argc_in, argv_in, past_end) ==
    parse_args_line(P, argv_in[1], argc_in, argv_in,
        assign_user_args(P, argv_in[1], argc_in, argv_in, past_end))

(***************************************************************************)
(* The single-pass matcher of the earlier argument-parser.h               *)
(* (src/unnamed/part_003): prematch_args walks argv with a counter argi    *)
(* that prematch_optional_arg advances over the value of an option.  argi  *)
(* is the C index: argv[argi] in the source is argv_in[argi + 1] here.     *)
(***************************************************************************)
Arg_Info(arg, option_name, option_value) ==
    [arg |-> arg, option_name |-> option_name, option_value |-> option_value]

\* what prematch_optional_arg hands back: the option's value and argi
Prematched(option_value, argi) == Ok([option_value |-> option_value, argi |-> argi])

\* Argument_Parser::prematch_optional_arg of part_003, with the int &argi
\* it leaves behind
prematch_optional_arg_argi(P, script, option_name, repeated, argi, argc_in, argv_in) ==
    IF option_name = "help"
    THEN Exit(0)
    ELSE IF option_name \notin DOMAIN P.m_optional_args
    THEN Throw("runtime_error", errstr(script,
             "invalid option '" \o option_name \o "', pass --help to display possible options"))
    ELSE IF P.m_optional_args[option_name].m_type = FLAG
    THEN IF repeated
         THEN Throw("runtime_error", errstr(script,
                  "'" \o option_name \o "' should only be specified once"))
         ELSE Prematched("true", argi)
    ELSE IF argi + 1 = argc_in
    THEN Throw("runtime_error", errstr(script, "'" \o option_name \o "' requires a value"))
    ELSE IF valid_option_name(argv_in[argi + 2])
    THEN Throw("runtime_error", errstr(script, "'" \o option_name \o "' requires a value"))
    ELSE IF P.m_optional_args[option_name].m_type # APPEND /\ repeated
    THEN Throw("runtime_error", errstr(script,
             "'" \o option_name \o "' should only be specified once"))
    ELSE Prematched(argv_in[argi + 2], argi + 1)

\* The state of the for loop of prematch_args: argi, the locals arg_infos,
\* positional_count and optional_occurs, and thrown as in LoopState.
ArgiState(argi, arg_infos, positional_count, optional_occurs, thrown) ==
    [argi |-> argi, arg_infos |-> arg_infos, positional_count |-> positional_count,
     optional_occurs |-> optional_occurs, thrown |-> thrown]

\* *optional_occurs[name] after ++optional_occurs[name]
Occurs(optional_occurs, name) ==
    IF name \in DOMAIN optional_occurs THEN optional_occurs[name] + 1 ELSE 1

\* lines 455-457: the argument at argi is an option, valued is what
\* prematch_optional_arg returned or threw
prematch_option(st, arg, option_name, valued) ==
    IF valued.kind # "ok"
    THEN [st EXCEPT !.thrown = valued]
    ELSE ArgiState(valued.value.argi + 1,
             Append(st.arg_infos, Arg_Info(arg, option_name, valued.value.option_value)),
             st.positional_count,
             (option_name :> Occurs(st.optional_occurs, option_name)) @@ st.optional_occurs,
             st.thrown)

\* lines 449-457: one iteration, option_name is what
\* lookup_formatted_option_name returned or threw
prematch_arg(P, script, argc_in, argv_in, st, option_name) ==
    IF option_name.kind # "ok"
    THEN [st EXCEPT !.thrown = option_name]
    ELSE IF option_name.value = ""
    THEN [st EXCEPT !.argi = @ + 1,
                    !.arg_infos = Append(@, Arg_Info(argv_in[st.argi + 1], "", "")),
                    !.positional_count = @ + 1]
    ELSE prematch_option(st, argv_in[st.argi + 1], option_name.value,
             prematch_optional_arg_argi(P, script, option_name.value,
                 Occurs(st.optional_occurs, option_name.value) > 1,
                 st.argi, argc_in, argv_in))

\* the for loop of Argument_Parser::prematch_args
RECURSIVE prematch_from(_, _, _, _, _)
prematch_from(P, script, argc_in, argv_in, st) ==
    IF st.argi >= argc_in \/ st.thrown.kind # "ok"
    THEN st
    ELSE prematch_from(P, script, argc_in, argv_in,
             prematch_arg(P, script, argc_in, argv_in, st,
                 lookup_formatted_option_name(P, script, argv_in[st.argi + 1])))

\* what Argument_Parser::prematch_args does once the loop is left
prematch_result(P, script, st) ==
    IF st.thrown.kind # "ok"
    THEN st.thrown
    ELSE IF st.positional_count < Len(P.m_positional_order)
    THEN Throw("runtime_error", errstr(script,
             "requires positional argument '"
             \o P.m_positional_order[st.positional_count + 1] \o "'"))
    ELSE Ok(st.arg_infos)

\* Argument_Parser::prematch_args
prematch_args(P, script, argc_in, argv_in) ==
    prematch_result(P, script,
        prematch_from(P, script, argc_in, argv_in,
            ArgiState(1, <<>>, 0, <<>>, Ok("running"))))

\* the for loop of Argument_Parser::match_args of part_003
RECURSIVE match_infos_from(_, _, _, _)
match_infos_from(arg_infos, i, positional_args, optional_args) ==
    IF i > Len(arg_infos)
    THEN [pos_args |-> positional_args, opt_args |-> optional_args]
    ELSE match_infos_from(arg_infos, i + 1,
             IF arg_infos[i].option_name = ""
             THEN Append(positional_args, arg_infos[i].arg)
             ELSE positional_args,
             IF arg_infos[i].option_name = ""
             THEN optional_args
             ELSE PushBack(optional_args, arg_infos[i].option_name,
                           arg_infos[i].option_value))

\* what Argument_Parser::match_args of part_003 returns for prematch_args'
\* result a
match_infos(a) ==
    IF a.kind # "ok" THEN a ELSE Ok(match_infos_from(a.value, 1, <<>>, <<>>))

\* lines 143-151 of Argument_Parser::parse_args of part_003, m is what
\* match_args returned or threw
parse_args_bind(P, script, argc_in, argv_in, m) ==
    IF m.kind # "ok"
    THEN Unwound(P, script, argc_in, argv_in, m)
    ELSE Returned(
             [P EXCEPT
                 !.m_positional_args =
                     [name \in DOMAIN @ |->
                         [@[name] EXCEPT !.m_value =
                             m.value.pos_args[CHOOSE j \in DOMAIN P.m_positional_order :
                                                  P.m_positional_order[j] = name]]],
                 !.m_optional_args =
                     [name \in DOMAIN @ |->
                         IF name \in DOMAIN m.value.opt_args
                         THEN [@[name] EXCEPT !.m_values = m.value.opt_args[name]]
                         ELSE @[name]]],
             script,
             [argc |-> Len(m.value.pos_args) - Len(P.m_positional_order) + 1,
              argv |-> [i \in DOMAIN argv_in |->
                           IF i >= 2 /\ i - 1 + Len(P.m_positional_order) <= Len(m.value.pos_args)
                           THEN m.value.pos_args[i - 1 + Len(P.m_positional_order)]
                           ELSE argv_in[i]]])

\* Argument_Parser::parse_args of part_003
parse_args_single_pass(P, argc_in, argv_in) ==
    parse_args_bind(P, argv_in[1], argc_in, argv_in,
        match_infos(prematch_args(P, argv_in[1], argc_in, argv_in)))

(***************************************************************************)
(* Typed retrieval.                                                        *)
(***************************************************************************)
\* isspace in the "C" locale: space, \t, \n, \v, \f and \r
Space == {" ", "\t", "\n", "", "\f", "\r"}

DigitOrder == "0123456789"

DigitValue(c) == (CHOOSE i \in 1..10 : CharAt(DigitOrder, i) = c) - 1

DigitChar(n) == CharAt(DigitOrder, n + 1)

\* strtoll/strtoull: where the leading white space of s ends
FirstNonSpace(s) ==
    CHOOSE i \in 1..(Len(s) + 1) :
        /\ (i = Len(s) + 1 \/ CharAt(s, i) \notin Space)
        /\ \A j \in 1..(i - 1) : CharAt(s, j) \in Space

\* strtoll/strtoull: the position after the digits that start at i
DigitsEnd(s, i) ==
    CHOOSE e \in i..(Len(s) + 1) :
        /\ (e = Len(s) + 1 \/ CharAt(s, e) \notin Digit)
        /\ \A j \in i..(e - 1) : CharAt(s, j) \in Digit

\* a run of decimal digits without its leading zeros, "0" for zero
StripZeros(m) ==
    IF \A j \in 1..Len(m) : CharAt(m, j) = "0"
    THEN "0"
    ELSE SubSeq(m, CHOOSE i \in 1..Len(m) :
                       /\ CharAt(m, i) # "0"
                       /\ \A j \in 1..(i - 1) : CharAt(m, j) = "0",
                Len(m))

\* An integer of any width: its sign and its magnitude in decimal.
Num(neg, mag) == [neg |-> neg /\ mag # "0", mag |-> mag]

\* a < b for two magnitudes
MagLess(a, b) ==
    \/ Len(a) < Len(b)
    \/ /\ Len(a) = Len(b)
       /\ \E k \in 1..Len(a) :
             /\ SubSeq(a, 1, k - 1) = SubSeq(b, 1, k - 1)
             /\ DigitValue(CharAt(a, k)) < DigitValue(CharAt(b, k))

\* x < y
NumLess(x, y) ==
    IF x.neg # y.neg THEN x.neg
    ELSE IF x.neg THEN MagLess(y.mag, x.mag)
    ELSE MagLess(x.mag, y.mag)

\* the digits 1..i of a - b - borrow for two magnitudes of equal length
RECURSIVE SubDigits(_, _, _, _)
SubDigits(a, b, i, borrow) ==
    IF i = 0 THEN ""
    ELSE SubDigits(a, b, i - 1,
             IF DigitValue(CharAt(a, i)) - DigitValue(CharAt(b, i)) - borrow < 0
             THEN 1 ELSE 0)
         \o DigitChar((DigitValue(CharAt(a, i)) - DigitValue(CharAt(b, i))
                       - borrow + 10) % 10)

\* the limits of long long and unsigned long long, and 2^64
LLONG_MIN == Num(TRUE, "9223372036854775808")
LLONG_MAX == Num(FALSE, "9223372036854775807")
ULLONG_MAX == Num(FALSE, "18446744073709551615")
TwoTo64 == "18446744073709551616"

\* what strtoll/strtoull scan of a text in base 10: white space, a sign,
\* digits; found is whether there is any digit
Scanned(s, i) ==
    [neg |-> i <= Len(s) /\ CharAt(s, i) = "-",
     from |-> IF i <= Len(s) /\ CharAt(s, i) \in {"+", "-"} THEN i + 1 ELSE i]

Scan(s, sc) ==
    [neg |-> sc.neg,
     found |-> DigitsEnd(s, sc.from) > sc.from,
     mag |-> StripZeros(SubSeq(s, sc.from, DigitsEnd(s, sc.from) - 1))]

\* std::stoll on what was scanned
stoll_of(sc) ==
    IF ~sc.found
    THEN Throw("invalid_argument", "stoll")
    ELSE IF \/ NumLess(Num(sc.neg, sc.mag), LLONG_MIN)
            \/ NumLess(LLONG_MAX, Num(sc.neg, sc.mag))
    THEN Throw("out_of_range", "stoll")
    ELSE Ok(Num(sc.neg, sc.mag))

\* std::stoll
std_stoll(value) == stoll_of(Scan(value, Scanned(value, FirstNonSpace(value))))

\* std::stoull on what was scanned: a negated value wraps modulo 2^64
stoull_of(sc) ==
    IF ~sc.found
    THEN Throw("invalid_argument", "stoull")
    ELSE IF MagLess(ULLONG_MAX.mag, sc.mag)
    THEN Throw("out_of_range", "stoull")
    ELSE IF sc.neg /\ sc.mag # "0"
    THEN Ok(Num(FALSE, StripZeros(SubDigits(TwoTo64,
             SubSeq("00000000000000000000", 1, 20 - Len(sc.mag)) \o sc.mag, 20, 0))))
    ELSE Ok(Num(FALSE, sc.mag))

\* std::stoull
std_stoull(value) == stoull_of(Scan(value, Scanned(value, FirstNonSpace(value))))

\* a plausible slip: the wrap-around guard is missing
stoull_unguarded(value) == std_stoull(value)

\* cpparse::stoull
stoull(value) ==
    IF \E i \in 1..Len(value) : CharAt(value, i) = "-"
    THEN Throw("out_of_range", "")
    ELSE std_stoull(value)

UpperOrder == "ABCDEFGHIJKLMNOPQRSTUVWXYZ"

LowerOrder == "abcdefghijklmnopqrstuvwxyz"

\* tolower in the "C" locale
ToLower(c) ==
    IF c \in Upper
    THEN CharAt(LowerOrder, CHOOSE i \in 1..26 : CharAt(UpperOrder, i) = c)
    ELSE c

HexOrder == "0123456789abcdef"

\* isxdigit
HexDigit == {CharAt(HexOrder, i) : i \in 1..16} \cup {"A", "B", "C", "D", "E", "F"}

HexValue(c) == (CHOOSE i \in 1..16 : CharAt(HexOrder, i) = ToLower(c)) - 1

\* the binary digits of the hexadecimal digits 0..f
HexBitsOf ==
    <<"0000", "0001", "0010", "0011", "0100", "0101", "0110", "0111",
      "1000", "1001", "1010", "1011", "1100", "1101", "1110", "1111">>

\* the binary digits of a run of hexadecimal digits: those of its first
\* half and then those of its second half
RECURSIVE HexBits(_)
HexBits(h) ==
    IF h = "" THEN ""
    ELSE IF Len(h) = 1 THEN HexBitsOf[HexValue(h) + 1]
    ELSE HexBits(SubSeq(h, 1, Len(h) \div 2))
         \o HexBits(SubSeq(h, Len(h) \div 2 + 1, Len(h)))

\* n times the character c
RECURSIVE Repeat(_, _)
Repeat(c, n) == IF n <= 0 THEN "" ELSE c \o Repeat(c, n - 1)

\* the number a run of decimal digits stands for
RECURSIVE DecValue(_)
DecValue(d) ==
    IF d = "" THEN 0
    ELSE 10 * DecValue(SubSeq(d, 1, Len(d) - 1)) + DigitValue(CharAt(d, Len(d)))

\* strtold: s continues at i with word, in letters of either case
ContinuesWith(s, i, word) ==
    /\ i + Len(word) - 1 <= Len(s)
    /\ \A k \in 1..Len(word) : ToLower(CharAt(s, i + k - 1)) = CharAt(word, k)

\* strtold: the position after the hexadecimal digits that start at i
HexDigitsEnd(s, i) ==
    CHOOSE e \in i..(Len(s) + 1) :
        /\ (e = Len(s) + 1 \/ CharAt(s, e) \notin HexDigit)
        /\ \A j \in i..(e - 1) : CharAt(s, j) \in HexDigit

\* a run of digits without its trailing zeros, "0" for zero
StripTrailingZeros(m) ==
    IF \A j \in 1..Len(m) : CharAt(m, j) = "0"
    THEN "0"
    ELSE SubSeq(m, 1, CHOOSE i \in 1..Len(m) :
                          /\ CharAt(m, i) # "0"
                          /\ \A j \in (i + 1)..Len(m) : CharAt(m, j) = "0")

\* strtold: the exponent that starts at position i, after the 'e' or 'p':
\* a sign and at least one decimal digit, or no exponent at all.  As
\* strtold does with its exp_limit, an exponent beyond limit is read as
\* limit.  The digits of s move the value by at most Len(s) decimal or
\* 4 * Len(s) binary places, so with an exponent from limit on a value
\* that is not zero stays at or above 10^20000 or 2^20000, or at or below
\* 10^-20000 or 2^-20000 with its last digit there: beyond LDBL_OVER, or
\* below 2^LDBL_DENORM_EXP, as with the exponent written.
ExponentAt(s, i) ==
    LET signed == i <= Len(s) /\ CharAt(s, i) \in {"+", "-"}
        from == IF signed THEN i + 1 ELSE i
        digits == IF from > Len(s) THEN ""
                  ELSE SubSeq(s, from, DigitsEnd(s, from) - 1)
        limit == 4 * Len(s) + 20000
        n == IF \/ Len(StripZeros(digits)) > Len(ToString(limit))
                \/ DecValue(StripZeros(digits)) > limit
             THEN limit
             ELSE DecValue(StripZeros(digits))
    IN  IF digits = "" THEN 0
        ELSE IF signed /\ CharAt(s, i) = "-" THEN 0 - n ELSE n

\* A long double before rounding: zero, mag * 10^exp10 (mag a run of decimal
\* digits that neither starts nor ends with 0), 1.f * 2^exp2 (bits is the 1
\* and then f, a run of binary digits that does not end with 0), an
\* infinity or a NaN; each keeps the sign of the text.
Zero(neg) == [neg |-> neg, form |-> "zero"]

Decimal(neg, mag, exp10) == [neg |-> neg, form |-> "decimal", mag |-> mag, exp10 |-> exp10]

Binary(neg, bits, exp2) == [neg |-> neg, form |-> "binary", bits |-> bits, exp2 |-> exp2]

Infinity(neg) == [neg |-> neg, form |-> "inf"]

NaN(neg) == [neg |-> neg, form |-> "nan"]

\* the value of the decimal digits int.frac with exponent e
DecimalOf(neg, int, frac, e) ==
    IF StripZeros(int \o frac) = "0"
    THEN Zero(neg)
    ELSE Decimal(neg, StripTrailingZeros(StripZeros(int \o frac)),
             e - Len(frac) + Len(StripZeros(int \o frac))
                 - Len(StripTrailingZeros(StripZeros(int \o frac))))

\* the value of the hexadecimal digits int.frac with binary exponent p
BinaryOf(neg, int, frac, p) ==
    IF StripZeros(HexBits(int \o frac)) = "0"
    THEN Zero(neg)
    ELSE Binary(neg, StripTrailingZeros(StripZeros(HexBits(int \o frac))),
             p - 4 * Len(frac) + Len(StripZeros(HexBits(int \o frac))) - 1)

\* strtold, decimal form from position i on: digits, a point, digits, and
\* an exponent; found is whether there is any digit
ScanDecimal(s, neg, i) ==
    LET ie == DigitsEnd(s, i)
        point == ie <= Len(s) /\ CharAt(s, ie) = "."
        fe == IF point THEN DigitsEnd(s, ie + 1) ELSE ie
        int == SubSeq(s, i, ie - 1)
        frac == IF point THEN SubSeq(s, ie + 1, fe - 1) ELSE ""
        e == IF fe <= Len(s) /\ CharAt(s, fe) \in {"e", "E"}
             THEN ExponentAt(s, fe + 1) ELSE 0
    IN  [found |-> int \o frac # "", value |-> DecimalOf(neg, int, frac, e)]

\* strtold, hexadecimal form from position i on, where "0x" or "0X" starts;
\* without a hexadecimal digit the text is read in decimal form
ScanHex(s, neg, i) ==
    LET ie == HexDigitsEnd(s, i + 2)
        point == ie <= Len(s) /\ CharAt(s, ie) = "."
        fe == IF point THEN HexDigitsEnd(s, ie + 1) ELSE ie
        int == SubSeq(s, i + 2, ie - 1)
        frac == IF point THEN SubSeq(s, ie + 1, fe - 1) ELSE ""
        p == IF fe <= Len(s) /\ CharAt(s, fe) \in {"p", "P"}
             THEN ExponentAt(s, fe + 1) ELSE 0
    IN  [found |-> int \o frac # "", value |-> BinaryOf(neg, int, frac, p)]

\* 0.a < 0.b for two runs of digits read as fractions: the smaller digit
\* where they first differ, or b going on with more than zeros where a ends
FracLess(a, b) ==
    LET n == IF Len(a) < Len(b) THEN Len(a) ELSE Len(b)
    IN  IF \E k \in 1..n : CharAt(a, k) # CharAt(b, k)
        THEN LET k == CHOOSE k \in 1..n :
                          /\ CharAt(a, k) # CharAt(b, k)
                          /\ \A j \in 1..(k - 1) : CharAt(a, j) = CharAt(b, j)
             IN  DigitValue(CharAt(a, k)) < DigitValue(CharAt(b, k))
        ELSE \E j \in (n + 1)..Len(b) : CharAt(b, j) # "0"

\* the power of ten above a decimal: 10^(Ord - 1) <= mag * 10^exp10 < 10^Ord
Ord(v) == Len(v.mag) + v.exp10

\* |v| < |bound| for two values of one form, decimal or binary
MagnitudeLess(v, bound) ==
    IF v.form = "decimal"
    THEN \/ Ord(v) < Ord(bound)
         \/ Ord(v) = Ord(bound) /\ FracLess(v.mag, bound.mag)
    ELSE \/ v.exp2 < bound.exp2
         \/ v.exp2 = bound.exp2 /\ FracLess(v.bits, bound.bits)

\* The bounds of the long double format.  A text from LDBL_OVER on rounds
\* to 2^16384 and overflows; a text below LDBL_TINY rounds, to 64 binary
\* digits, below the smallest normal number 2^-16382.  The two bounds are
\* 2^16384 - 2^16319, an integer of 4933 digits, and 2^-16382 - 2^-16447,
\* which is (2^65 - 1) * 5^16447 / 10^16447.
LDBL_OVER ==
    [decimal |-> Decimal(FALSE,
                  "118973149535723176505351158982948866796625400469556721895649"
                  \o "927756249918185172720476044944290457046138433056764616744328"
                  \o "666255526748948793023632513609765434237723241753648908036202"
                  \o "958495124648560574092817813661123067421904850038181180520787"
                  \o "720310726881239888580817051703268776757919551260442611296993"
                  \o "969730906497042135737359373754818979106457807539652027804156"
                  \o "491987771033211787185996492320631117543475322122625353433719"
                  \o "930462950413766867781210335973022293561007134342532563356262"
                  \o "609267460063335819387905541393759243547993474715549691352074"
                  \o "891450084783459970660481689991674771307443551458551137274603"
                  \o "094678907537177579699931235422786658780337099286207273033150"
                  \o "295133847635735008945346069635452157254692607776538304457707"
                  \o "598289220004738023060594798392660507455937428888763514661408"
                  \o "758068906506527143720723156203739676372818578090840614216621"
                  \o "704787774611256823213431325634056809505691175988424606654072"
                  \o "823115950827627377808673574181547198668714142143234447550206"
                  \o "269197545774263993130119778810659043621312707109068433886162"
                  \o "877222844491518930341896313561238988520360803607534987178305"
                  \o "043520937299838173444083502027340452162582038296009574808809"
                  \o "658742434897860755961343752419543802653239216337103370292742"
                  \o "935497502474626454559729017094560234867236701379230234809843"
                  \o "263739640909561388493227725171983531003154799850580375254640"
                  \o "686684370650275318316632539920970969803838872914424760535111"
                  \o "444864748847573042963569291679400178896696862026500700279826"
                  \o "635302471702206627303799047632971460017199544567373231610376"
                  \o "256879987134317934150014443436145710546137924490489525241523"
                  \o "018271239906743645663976778059895127442517397682525944430951"
                  \o "907648109952479454685655581652571021331761401038962049122047"
                  \o "111009185757383743827811254014770944602713378187451095200132"
                  \o "611700632386420792585207954137064426995712656449343534120120"
                  \o "770857498813673742586478583964512406030930704197486727636333"
                  \o "837001863610516286928300891774383071105022919314408502968809"
                  \o "463848377324668014115592383521324785361676372582468085716775"
                  \o "183709078048790084022838728361454734650904480489014369184979"
                  \o "256497738392744524915616501449487520501300124861778269881261"
                  \o "335544037735715125808986359728419859776521586683035924100574"
                  \o "850554368935873803132428446524362913648833348768663733118103"
                  \o "918959060412499201797234385239260504905744357611987327994540"
                  \o "083286019952793692265006211633524675976369938866409689573287"
                  \o "599490442761701229217689614343727392339547174221615984024864"
                  \o "635625680108391566720681134647098412863051374760613506003971"
                  \o "759070209697293081442875903240426975910170967179075646317814"
                  \o "394978762382183679266247724762405284284971833355044962214065"
                  \o "895558105408175131247181971272672247996246595857705695208092"
                  \o "816044125822560989770526261449460733912621692806952140652061"
                  \o "911968824328747339453822511902787546522099225623311147726504"
                  \o "972617425102845212076162056723650625826928778132002074035405"
                  \o "250631109426611640681070927283430486232053929420514345435713"
                  \o "131387967949326001734866894273047449417824913738789829732833"
                  \o "683358900903818016968127085077418070951770702999663693968324"
                  \o "004781728763310108379440442854174041581191669623267749855519"
                  \o "774427387794278666183504498843857475877442235608736818515722"
                  \o "862733587905866015455830953591207040129558473662150426884726"
                  \o "759522376583586317425575669726781893104752341432891868770513"
                  \o "406836036136374264038296610854599454591170582569741798904328"
                  \o "676755131072831974295435585611673171096113833795735888591844"
                  \o "569864166955969416680807491722688418115891753669917660968752"
                  \o "228842669182040018336152355940915579955628386232949747891257"
                  \o "526145783057949776122896048841308261113063674538553146663451"
                  \o "574384023903569848640351704415703922683108552880537081027404"
                  \o "397775617608412295293311763789489900990611859125572525530349"
                  \o "278319943261304784125553748811339225969956465404836696490782"
                  \o "500903694674135036899321686023782466034636817818347651623601"
                  \o "663129318574761269352028560641266614840108083315301260274558"
                  \o "575087296910384815285134460531715154639604115052348665171547"
                  \o "251609075784863196403541944155425166776423403472211742139313"
                  \o "210299896884252707306862499895115691675551238140467142819537"
                  \o "867343414276518703858928008759955391140729958278175965217739"
                  \o "826511218924463113077693598006228365514899236789515147503266"
                  \o "616268809617626228164916917150602464494142485507467876173251"
                  \o "398398846807079309227567538802476335624194115637802439400050"
                  \o "221934368975949846684026462252790745597563393487879954351820"
                  \o "652138303761879543933808642920064500206512003954563931569820"
                  \o "114768348051593629274325149906343853129692245386396887281599"
                  \o "735312588117968646270517005121997466606469447530616465384255"
                  \o "826304380842850779833108567141643769616400809617173972138187"
                  \o "711971431230616321035038259922624655396612597024040812967444"
                  \o "207673594478417900666764580589685104809363813759667069693701"
                  \o "069921295791929938093722225050956280798177934138468414654728"
                  \o "631498256418191041953123619406060363406390776140155709737059"
                  \o "125898120366007955506160309553860446596202876233728025871625"
                  \o "578031503869424406179027994752890226443351619365453243328968"
                  \o "8740976918528", 0),
     binary |-> Binary(FALSE, Repeat("1", 65), 16383)]

LDBL_TINY ==
    [decimal |-> Decimal(FALSE,
                  "336210314311209350617154782902469073753486919650598574469885"
                  \o "095941640361579770445486738341414922127944226288895317779309"
                  \o "715892778804758986319831955437508092491738868959525336108179"
                  \o "892853929264034835255510471898849106161540756888746313659410"
                  \o "227113166459876306764806575944853618454311364166265712923703"
                  \o "015156379919137311690146670277560121320571982201923004646707"
                  \o "745766111608444535414266288890215892905166519103766159330403"
                  \o "463160504265218315622361445839064161450439609884177368142933"
                  \o "065269170678578291158352386523803873948047333187953894850223"
                  \o "894778265221401012133168383628126024597634419831327225495760"
                  \o "956739426743460578320611103755434898600374806451393353605009"
                  \o "107763157751543182930202493430376570891509133291874048563562"
                  \o "711051252676993279218162629225551032356734706333706815531570"
                  \o "666468048484975119598968236462641625976569169316425379235106"
                  \o "974655616479864717831147849499013880917596004651508344867808"
                  \o "106568549076548668310084582165195514525491009914292259019429"
                  \o "468198683881995989375899068097007208876996836854111432061664"
                  \o "425163145503586410308534152827598265433921311692552337169819"
                  \o "424127171081057966706947183739801111769980653708011251083277"
                  \o "023493407822957602250460606672262784171585059906194434239215"
                  \o "351913976505085709806955569787963776211386313897750264304014"
                  \o "664068004570679479961310324701366091921392721210868229853123"
                  \o "608238198793683873529811772927726388348465577381626818080781"
                  \o "898621580308498356906352853811906656137508098187371157753993"
                  \o "373751314423123049464806476064282037513374048190750686232712"
                  \o "184133132615287197944379572373146726001131080700836796268101"
                  \o "749060248480287960602079451179894429827112148006836699706768"
                  \o "447518878641926021647339351796401911733922547578715552306722"
                  \o "220419931454296578404496588798303884324024473750198892533100"
                  \o "999904894673026534218677303993645929453942600155990864030028"
                  \o "760895618521407978035581672334124621519629313470507344970450"
                  \o "067351485613930873480748707112437127237449748781822536786211"
                  \o "264818169180645295479528071151126246689443264204317053827523"
                  \o "798168067234312341831703511802409983733857934227565180324696"
                  \o "811551074044046016194844966070362652704024458083269196544092"
                  \o "998262604344543263533519267225148201240747768345255634334413"
                  \o "271410702571332070451256483421962604711547615479640157054625"
                  \o "832236547659508183324339889166111624625523834611520498978373"
                  \o "846902015751977609755385365296937610919012411937401176586353"
                  \o "382882063895530660017678033886150249774222937488132557077123"
                  \o "001930155064174728859267544178255856139170423686587700942523"
                  \o "790943097870757109628757298016074668545900213426938890638485"
                  \o "910698253485115646212594730022716806938865097010955747203042"
                  \o "651767214429594931567422605367268915249746892156651109188413"
                  \o "829910808386389899618523413141436551180703028224409402118922"
                  \o "179374844109455385087343699022230330879517607753973088068138"
                  \o "961861734406957732225356496684483376684968731440240291040711"
                  \o "938073613973390659249217711967234638127988683780884048419292"
                  \o "379578658084266146674527009211963942647810251237880538603744"
                  \o "831897655305114505903961214888462419189666041130518832599882"
                  \o "706704006719345108914761348569788752400848077245911820679056"
                  \o "857081153039318750778242321603218309611472125486885147765035"
                  \o "155477934209439146073491616383245237253614560500501666131672"
                  \o "826478271516755795891542145422916532591337849746194693468619"
                  \o "775868230401869329068449968058874458496034654001165094001571"
                  \o "835743876215023598951936188952863001608011345149167171157817"
                  \o "363965299636848077624522780276601218790555630083974754967731"
                  \o "878709699265266288315794196266166087048212211333634553505030"
                  \o "198364913014057053778081922866609227302222941590324171468922"
                  \o "789499875911381816674331164047369961295411182194590270916624"
                  \o "913803594068860305042598480520119703374820778754020338894324"
                  \o "417834778706370667294251776851476813618294864092915811396404"
                  \o "888930073850966898671266646900641905694577016509475969661827"
                  \o "940658365578618914966586142617789267257576554576186665561516"
                  \o "644602133752578673072944413666789840599883972562626444989344"
                  \o "752485794464484255181094897663024371059405314966296457453729"
                  \o "607487344240551310157450666209120415013193773041276556319875"
                  \o "797662964944259243222084952037605266100900940265458263512294"
                  \o "656979319504608963110359961276084426644880180450755135367151"
                  \o "908650467878967759588346545797653890101650411081042390450243"
                  \o "875237471727311299551213274219548421081902337421846631106123"
                  \o "343050284641580090052113979152869906274530841081683898442466"
                  \o "523643278403535079110135119954488458312280641260252652222430"
                  \o "812881572333477453227092778307215885450529483583756287530835"
                  \o "634888825052431166897483122907061400649329078182581767498598"
                  \o "759694056095302560539820184708865748182863824649746719641782"
                  \o "016490180587730918511025240218464270250355948558178665493840"
                  \o "124156404366673074444093810044515720845960602261979287462910"
                  \o "731373798472750477989681207946316003212958333016056395313857"
                  \o "791498513824127598091146960593889429885708485654819466776842"
                  \o "169201787404904769752278255004783282596554853941234905147224"
                  \o "914529043608474020522571355747654066605537880686508347029248"
                  \o "315672166877590548157820113561485216848363213775757404781708"
                  \o "305868910939373394451619378317816624421480986867179343036368"
                  \o "051632398444633079135579839907848982895981628716738342162302"
                  \o "266095040478582546546776218529703815684957265981691697497373"
                  \o "691821497340600450049136740015021759410600915246368317568731"
                  \o "984428359783449255810157323616636009085782775267296784043774"
                  \o "420168009131869996931575392916747082574785991589784301742821"
                  \o "801578010074642092109345866200289248056522893206754893946083"
                  \o "563378490223312804609745669612513023964247040469222070733906"
                  \o "609192215726860743460321426561696058279828327804190937416566"
                  \o "665684945716421117102670343545094375728734671943200335802936"
                  \o "517763958349648310044535626761728700055469782710785211672985"
                  \o "418337856835156727468146272779303911602121989375552815757638"
                  \o "838474697024297848878234840112050748369243199766398991788943"
                  \o "420617598147806716182585595520372477745410689674779443967043"
                  \o "690629055286413394890139013195388305204776100236063898257067"
                  \o "831671614437256848847637876057561752857706452999405904266021"
                  \o "968469526440225499153526958304237392903173817985388541460837"
                  \o "042230036631624646022496211878447036098048135750443391341011"
                  \o "240574876101966208428549287679365548088039069028653551291178"
                  \o "902490000277994952980354405247058921109349442715644524004797"
                  \o "409938884393537769199232666815603813763254906873243946523357"
                  \o "169462828219158435420862738084558655093539383213326989783651"
                  \o "666287399903397984109133401949759059150122188888950867270369"
                  \o "180686604628300563502641434577508733510387324933847485929623"
                  \o "360845559075282891932938640307216347941146962272157612078427"
                  \o "588783612741316415178538150074065118045417915616668200333163"
                  \o "638458458393256016057701481051180570795144330656809872941315"
                  \o "660995628249782047417214869238625858861505562861813301118274"
                  \o "560575289813218013037520112880481930539651671656709464382656"
                  \o "889415995565411942935394138981086312110366338031209869409138"
                  \o "919624991376074545792181369944738888040874166397748797565216"
                  \o "157807779035222436750209445023668103083811405114689987807909"
                  \o "008316474980757219602627486408764481441269976586994479136151"
                  \o "163227170091513141461974304929826958117301596508252663757699"
                  \o "042621989671245972397589435779074373671137947578970528283160"
                  \o "070742395988876563257400183544349580152562082343040752765791"
                  \o "583799209659357896057001491701296690288515365151278680936945"
                  \o "272232907028169724947812011886312652133264595166444941745581"
                  \o "200167743602303322863239136593475805709221434869056141771224"
                  \o "533156575123475440761975962919649274739129934287627112060511"
                  \o "862854176115228723805503337145276033256143843891266309840239"
                  \o "271134097486254573120420084402432082936524954924488031808912"
                  \o "964235002499035536386938204280080783973976603713533539244570"
                  \o "283416339977526925669486052451550937001640735806237382957405"
                  \o "602218970421357938720658484193742028578813621416114378909449"
                  \o "537485896708413311973750193374949210334932378180142748907162"
                  \o "206433575034734444387839953427227588655436869271893511877787"
                  \o "122585993723754649244105810788734939724137996103616209856305"
                  \o "244406026330450164713171832205075657880842074039615618423660"
                  \o "250485396684157552381264643493734976718108164286969571841137"
                  \o "577781795732135488115687257086393496184244323426665727428472"
                  \o "260727789004244902441351567994755758308389666727865111064789"
                  \o "213419493376665685035375079658629980165372735118126176288800"
                  \o "394164516513382628616767328447478694689753223755838737284714"
                  \o "964692367455090096552695862993481521461385895462109349651005"
                  \o "013921502058395045866507053981247153912158096468690548050659"
                  \o "982186356712705441667198783544049541631961581068661006707953"
                  \o "971535788117897555957095685375807324890515260009268871229150"
                  \o "984927148150477282900929641648328861112935166193789883154514"
                  \o "583656750207590401639982035991679519286595378730552834801674"
                  \o "825857945187635869418017933054551911519436742572177936734548"
                  \o "352471418330250232692757735973201554898309918993396525019311"
                  \o "197472239550996608755843726590301156197771250237765566381996"
                  \o "107428324760110754629666856732810820030132162600726380309373"
                  \o "317765221711800788012073680471927251395758002320705118554569"
                  \o "265946647642815364886938491177510832968613224832203004584976"
                  \o "748571675079076093840185610414569754369478047179814205358893"
                  \o "903740371577036454516300398667256850372119602874930257181584"
                  \o "301631103336148104038326141616016314091404909765744209452613"
                  \o "626830682513463892441504049229182813503772771487040988769254"
                  \o "471486917727615924417529277465442293867863271496722810540268"
                  \o "001167607125461567198657517109746993514085196044365537071241"
                  \o "860445618199725577062814484270067499378516039897861071676802"
                  \o "558133266443551858454522536262756402949966970963590508863699"
                  \o "855897331063267071179969857177276074067114851052676892784547"
                  \o "990185370553520105874581313749238407535963467226418857479069"
                  \o "991694375298502699675309044405023114808463277247543336035104"
                  \o "330833933944433222370272967595186528497367717160494402209442"
                  \o "551183241880733269874419646987869317588718922834380535748835"
                  \o "395005793525761638796423457100176195887402283494486488418966"
                  \o "389058938660682538169836513540425901416545250328335138276116"
                  \o "306021717669565298094393081356989479184182577529966822932287"
                  \o "279614010626840649755326858886153099267696449894891496055554"
                  \o "796328481556922074035463721085614123505090429045566201716338"
                  \o "635213086836581499342879113499305499520614663028376658456636"
                  \o "365811732547392230515838254947490579147678724525809490602325"
                  \o "796061802861131326780478906544241621323293484618289228060866"
                  \o "052603321558292527950005841003852720846919706395242740755117"
                  \o "978099161987408029995615892590094369563968187539123613408254"
                  \o "493763624948408379995433472797964010258056849486409537673063"
                  \o "330746382858759044921982615938389106051025961917343100665566"
                  \o "722234576537664395060707800949130285029986433075160821277618"
                  \o "604153311630954022620410836938906374845372844196465658529492"
                  \o "903460541301991249969021213057124156419383798505742140372246"
                  \o "734495578307442583007933144821809261313018876537082179917480"
                  \o "040869377889717344310123755626442010118075119161536600165266"
                  \o "656120409555405264530223322663391701051578120996961748779329"
                  \o "904951301188375268001847944795436087809852018659318877762193"
                  \o "681718715094888673711754668971473928698547733212451586553701"
                  \o "474613677665892023413700518079473092603775478955482123652715"
                  \o "626784277422816572808718726861716403656150898460514704058361"
                  \o "041840438578696819290470398511549961649460933175623571815104"
                  \o "396949664076038999225292371511785130544975228518311891139384"
                  \o "979710143581934769720334498482713377005346129563479844583987"
                  \o "832620127761607121200912253093247761199326637212722407980617"
                  \o "669146478841756335795031996682422821386975945088258902088538"
                  \o "417880808011017833306025158963494676999484992230768429948741"
                  \o "542289122174159656859261960891988991872029590249659274866513"
                  \o "62368100137592401288610943765888805501163005828857421875", -16447),
     binary |-> Binary(FALSE, Repeat("1", 65), -16383)]

\* the smallest subnormal long double is 2^-16445
LDBL_DENORM_EXP == -16445

\* d / 5 for digits d of a multiple of 5, in as many digits: 2 * d without
\* its last digit, where a digit of 2 * d is twice the digit of d, and one
\* more when the digit after it is 5 or above
Fifth(d) ==
    SubSeq([i \in 1..(Len(d) + 1) |->
               (IF i = 1 THEN 0 ELSE (2 * d[i - 1]) % 10)
               + (IF i <= Len(d) /\ d[i] >= 5 THEN 1 ELSE 0)],
           1, Len(d))

\* d / 5^e in as many digits as d, or no digits when 5^e does not divide d
RECURSIVE FifthPower(_, _)
FifthPower(d, e) ==
    IF d = <<>> \/ e = 0 THEN d
    ELSE IF e = 1 THEN (IF d[Len(d)] \in {0, 5} THEN Fifth(d) ELSE <<>>)
    ELSE FifthPower(FifthPower(d, e \div 2), e - e \div 2)

\* the binary digits of the number with decimal digits d, none for zero:
\* those of its half and then its parity, where a digit of the half is
\* half the digit of d, after ten more for an odd digit before it
RECURSIVE BinaryDigits(_)
BinaryDigits(d) ==
    IF \A i \in 1..Len(d) : d[i] = 0 THEN ""
    ELSE BinaryDigits(SubSeq([i \in 1..Len(d) |->
                                 (d[i] + IF i > 1 /\ d[i - 1] % 2 = 1 THEN 10 ELSE 0)
                                     \div 2],
                             1, Len(d)))
         \o DigitChar(d[Len(d)] % 2)

\* strtold sets ERANGE: the value overflows, or it is tiny and its
\* round_and_return finds it inexact.  round_and_return gets the first 64
\* binary digits, the 65th as round bit and whether any further one is
\* set; for a tiny value it shifts the 64 digits down to the subnormal
\* format and reports ERANGE when a digit shifted out or a digit after the
\* 65th is set, and leaves the 65th itself out of account.  Of a decimal
\* text strtold reads the digits down to a quarter of the smallest
\* subnormal, 2^(LDBL_DENORM_EXP - 2), which are the first 16447 behind
\* the point (need_frac_digits), and takes a digit after them as a further
\* binary digit set.  A decimal mag / 10^e has finitely many binary
\* digits only if 5^e divides mag, and then is mag / 5^e over 2^e.
ERANGE(v) ==
    LET Kept(bits) ==
            StripTrailingZeros(SubSeq(bits, 1, IF Len(bits) < 64 THEN Len(bits) ELSE 64))
        Exact(bits, exp2) ==
            /\ Len(bits) <= 65
            /\ exp2 - (Len(Kept(bits)) - 1) >= LDBL_DENORM_EXP
    IN  /\ v.form \in {"decimal", "binary"}
        /\ \/ ~MagnitudeLess(v, LDBL_OVER[v.form])
           \/ /\ MagnitudeLess(v, LDBL_TINY[v.form])
              /\ IF v.form = "binary"
                 THEN ~Exact(v.bits, v.exp2)
                 ELSE \/ v.exp10 < LDBL_DENORM_EXP - 2
                      \/ \E q \in {FifthPower([i \in 1..Len(v.mag) |->
                                                  DigitValue(CharAt(v.mag, i))],
                                              0 - v.exp10)} :
                            \/ q = <<>>
                            \/ ~Exact(StripTrailingZeros(BinaryDigits(q)),
                                      Len(BinaryDigits(q)) - 1 + v.exp10)

\* std::stold on what was scanned
stold_of(sc) ==
    IF ~sc.found
    THEN Throw("invalid_argument", "stold")
    ELSE IF ERANGE(sc.value)
    THEN Throw("out_of_range", "stold")
    ELSE Ok(sc.value)

\* strtold: what the text holds from position i on, after the sign
ScanFloat(s, neg, i) ==
    IF ContinuesWith(s, i, "inf")
    THEN [found |-> TRUE, value |-> Infinity(neg)]
    ELSE IF ContinuesWith(s, i, "nan")
    THEN [found |-> TRUE, value |-> NaN(neg)]
    ELSE IF ContinuesWith(s, i, "0x") /\ ScanHex(s, neg, i).found
    THEN ScanHex(s, neg, i)
    ELSE ScanDecimal(s, neg, i)

\* std::stold
std_stold(value) ==
    stold_of(ScanFloat(value, Scanned(value, FirstNonSpace(value)).neg,
                 Scanned(value, FirstNonSpace(value)).from))

\* the integer types retrieval is instantiated with (LP64)
UnsignedTypes == {"unsigned short", "unsigned int", "unsigned long",
                  "unsigned long long"}

SignedTypes == {"short", "int", "long", "long long"}

\* the floating-point types retrieval is instantiated with (x86-64: long
\* double is the 80-bit extended format)
FloatingTypes == {"float", "double", "long double"}

\* std::numeric_limits<T>::min() / lowest() and max() of the integer types
numeric_limits ==
    [T \in UnsignedTypes \cup SignedTypes |->
        IF T = "unsigned short" THEN [min |-> Num(FALSE, "0"), max |-> Num(FALSE, "65535")]
        ELSE IF T = "unsigned int" THEN [min |-> Num(FALSE, "0"), max |-> Num(FALSE, "4294967295")]
        ELSE IF T \in {"unsigned long", "unsigned long long"}
        THEN [min |-> Num(FALSE, "0"), max |-> ULLONG_MAX]
        ELSE IF T = "short" THEN [min |-> Num(TRUE, "32768"), max |-> Num(FALSE, "32767")]
        ELSE IF T = "int" THEN [min |-> Num(TRUE, "2147483648"), max |-> Num(FALSE, "2147483647")]
        ELSE [min |-> LLONG_MIN, max |-> LLONG_MAX]]

\* operator<< of an integer
NumText(x) == (IF x.neg THEN "-" ELSE "") \o x.mag

\* The largest magnitude that is not above numeric_limits<T>::max() when
\* parse_numeric_arg compares, for a floating-point T: the comparison is
\* made on the long double, and everything up to max() plus half a unit
\* of the long double's last place rounds to max() (2^128 - 2^104 + 2^63
\* for float, 2^1024 - 2^971 + 2^959 for double).  lowest() is -max().
FloatMax ==
    [T \in FloatingTypes |->
        IF T = "float"
        THEN [decimal |-> Decimal(FALSE, "340282346638528859820927555521371701248", 0),
              binary |-> Binary(FALSE, Repeat("1", 24) \o Repeat("0", 40) \o "1", 127)]
        ELSE IF T = "double"
        THEN [decimal |-> Decimal(FALSE,
                  "179769313486231570819400080737404356338247258719782590754355"
                  \o "590231954764543462491989196032978150091222773266486455387593"
                  \o "846973785005168516860197131636139064009338904224707608786011"
                  \o "128940367565459011263336200160766480983033642832137602651358"
                  \o "294820785747671008011879205975152046582471438654791318321180"
                  \o "081913856", 0),
              binary |-> Binary(FALSE, Repeat("1", 53) \o Repeat("0", 11) \o "1", 1023)]
        ELSE LDBL_OVER]

\* n_value < numeric_limits<T>::lowest() || n_value > numeric_limits<T>::max()
OutOfLimits(T, n_value) ==
    IF T \in FloatingTypes
    THEN \/ n_value.form = "inf"
         \/ /\ n_value.form \in {"decimal", "binary"}
            /\ MagnitudeLess(FloatMax[T][n_value.form], n_value)
    ELSE \/ NumLess(n_value, numeric_limits[T].min)
         \/ NumLess(numeric_limits[T].max, n_value)

\* what operator<< prints for numeric_limits<T>::min() and max(); for a
\* floating-point T min() is the smallest positive normal number, printed
\* with six significant digits
LimitText(T) ==
    IF T = "float" THEN [min |-> "1.17549e-38", max |-> "3.40282e+38"]
    ELSE IF T = "double" THEN [min |-> "2.22507e-308", max |-> "1.79769e+308"]
    ELSE IF T = "long double" THEN [min |-> "3.3621e-4932", max |-> "1.18973e+4932"]
    ELSE [min |-> NumText(numeric_limits[T].min), max |-> NumText(numeric_limits[T].max)]

\* return n_value: the conversion of an in-range n_value to T.  An integer
\* keeps its value; a long double becomes the T nearest to it.
Converted(T, n_value) ==
    IF T \in FloatingTypes THEN [type |-> T, nearest |-> n_value] ELSE n_value

\* Argument_Info::parse_numeric_arg<T>, n_value is what convert_func
\* returned or threw
parse_numeric_arg(T, script, m_name, n_value) ==
    IF n_value.kind = "invalid_argument"
    THEN Throw("runtime_error", errstr(script, "'" \o m_name \o "' must be of integral type"))
    ELSE IF n_value.kind = "out_of_range" \/ OutOfLimits(T, n_value.value)
    THEN Throw("runtime_error", errstr(script,
             "'" \o m_name \o "' must be in range [" \o LimitText(T).min
             \o "," \o LimitText(T).max \o "]"))
    ELSE Ok(Converted(T, n_value.value))

\* a plausible slip: the upper-case literals are accepted as well
parse_as_type_nocase(T, script, m_name, value) ==
    CASE T = "bool" ->
            IF value \in {"true", "yes", "on", "TRUE", "YES", "ON"} THEN Ok(TRUE)
            ELSE IF value \in {"false", "no", "off", "FALSE", "NO", "OFF"} THEN Ok(FALSE)
            ELSE Throw("runtime_error", errstr(script,
                     "'" \o m_name \o "' must be one of: 'true', 'false', 'yes', 'no', 'on', 'off'"))
      [] T = "char" ->
            IF Len(value) # 1
            THEN Throw("runtime_error", errstr(script, "'" \o m_name \o "' must be a single character"))
            ELSE Ok(value)
      [] T \in UnsignedTypes -> parse_numeric_arg(T, script, m_name, stoull(value))
      [] T \in SignedTypes -> parse_numeric_arg(T, script, m_name, std_stoll(value))
      [] T \in FloatingTypes -> parse_numeric_arg(T, script, m_name, std_stold(value))
      [] T = "string" -> Ok(value)

\* Argument_Info::parse_as_type<T>: one overload each for bool, char, the
\* unsigned and the signed integer types, the floating-point types and
\* std::string; no overload takes any other T
parse_as_type(T, script, m_name, value) ==
    CASE T = "bool" ->
            IF value \in {"true", "yes", "on"} THEN Ok(TRUE)
            ELSE IF value \in {"false", "no", "off"} THEN Ok(FALSE)
            ELSE Throw("runtime_error", errstr(script,
                     "'" \o m_name \o "' must be one of: 'true', 'false', 'yes', 'no', 'on', 'off'"))
      [] T = "char" ->
            IF Len(value) # 1
            THEN Throw("runtime_error", errstr(script, "'" \o m_name \o "' must be a single character"))
            ELSE Ok(value)
      [] T \in UnsignedTypes -> parse_numeric_arg(T, script, m_name, stoull(value))
      [] T \in SignedTypes -> parse_numeric_arg(T, script, m_name, std_stoll(value))
      [] T \in FloatingTypes -> parse_numeric_arg(T, script, m_name, std_stold(value))
      [] T = "string" -> Ok(value)

\* Optional_Info::exists
exists(O) == O.m_values # <<>>

\* Optional_Info::count
count(O) == Len(O.m_values)

\* a plausible slip: an index past the end is clamped to the last value
value_clamped(O, idx) ==
    IF O.m_values = <<>>
    THEN Throw("out_of_range",
             lerrstr("index " \o ToString(idx) \o " is out of range for '" \o O.m_name \o "'"))
    ELSE IF idx >= Len(O.m_values)
    THEN Ok(O.m_values[Len(O.m_values)])
    ELSE Ok(O.m_values[idx + 1])

\* Optional_Info::value, idx counted from 0
value(O, idx) ==
    IF idx >= Len(O.m_values)
    THEN Throw("out_of_range",
             lerrstr("index " \o ToString(idx) \o " is out of range for '" \o O.m_name \o "'"))
    ELSE Ok(O.m_values[idx + 1])

\* a plausible slip: the FLAG fallback is tried before the caller's default
as_type_at_flag_first(O, script, T, has_default, idx, default_val) ==
    IF exists(O)
    THEN LET v == value(O, idx) IN
         IF v.kind # "ok" THEN v ELSE parse_as_type(T, script, O.m_name, v.value)
    ELSE IF O.m_type = FLAG
    THEN parse_as_type(T, script, O.m_name, "false")
    ELSE IF has_default
    THEN Ok(default_val)
    ELSE Throw("logic_error",
             lerrstr("no value given for '" \o O.m_name \o "' and no default specified"))

\* a plausible slip: the caller's default stands in for an index that is out
\* of range
as_type_at_default_for_index(O, script, T, has_default, idx, default_val) ==
    IF exists(O) /\ (idx < Len(O.m_values) \/ ~has_default)
    THEN LET v == value(O, idx) IN
         IF v.kind # "ok" THEN v ELSE parse_as_type(T, script, O.m_name, v.value)
    ELSE IF has_default
    THEN Ok(default_val)
    ELSE IF O.m_type = FLAG
    THEN parse_as_type(T, script, O.m_name, "false")
    ELSE Throw("logic_error",
             lerrstr("no value given for '" \o O.m_name \o "' and no default specified"))

\* Optional_Info::as_type_at<T, has_default>
as_type_at(O, script, T, has_default, idx, default_val) ==
    IF exists(O)
    THEN LET v == value(O, idx) IN
         IF v.kind # "ok" THEN v ELSE parse_as_type(T, script, O.m_name, v.value)
    ELSE IF has_default
    THEN Ok(default_val)
    ELSE IF O.m_type = FLAG
    THEN parse_as_type(T, script, O.m_name, "false")
    ELSE Throw("logic_error",
             lerrstr("no value given for '" \o O.m_name \o "' and no default specified"))

\* Positional_Info::as_type<T>
as_type(Pos, script, T) == parse_as_type(T, script, Pos.m_name, Pos.m_value)

\* Argument_Parser::arg_at<T, has_default>; arg<T>(name) is idx = 0
arg_at(P, script, T, has_default, name, idx, default_val) ==
    IF name \in DOMAIN P.m_optional_args
    THEN as_type_at(P.m_optional_args[name], script, T, has_default, idx, default_val)
    ELSE IF name \in DOMAIN P.m_positional_args
    THEN as_type(P.m_positional_args[name], script, T)
    ELSE Throw("logic_error", lerrstr("no argument by the name '" \o name \o "'"))

\* a plausible slip: as_type hands m_value over with std::move, and
\* parse_as_type<std::string>, which takes its parameter by value, is left
\* holding the text
as_type_this_moved(Pos, T) ==
    IF T = "string" THEN [Pos EXCEPT !.m_value = ""] ELSE Pos

\* *this after Positional_Info::as_type<T>() const: m_value is bound to the
\* reference to const that parse_as_type takes, or copied into its
\* parameter when T is std::string, and is assigned nowhere
as_type_this(Pos, T) ==
    Pos

\* *this after Optional_Info::as_type_at<T, has_default>(idx, default_val)
\* const: exists() and value(idx) are const, value returns a copy of
\* m_values[idx], and m_values is assigned nowhere
as_type_at_this(O, T, idx) ==
    O

\* *this after Argument_Parser::arg_at<T, has_default>(name, idx,
\* default_val) const: find adds no entry to m_optional_args or
\* m_positional_args, and the entry found is left as its as_type_at or
\* as_type leaves it
arg_at_this(P, T, name, idx) ==
    IF name \in DOMAIN P.m_optional_args
    THEN [P EXCEPT !.m_optional_args[name] = as_type_at_this(@, T, idx)]
    ELSE IF name \in DOMAIN P.m_positional_args
    THEN [P EXCEPT !.m_positional_args[name] = as_type_this(@, T)]
    ELSE P

\* Argument_Parser::lookup_optional
lookup_optional(P, name) ==
    IF name \notin DOMAIN P.m_optional_args
    THEN Throw("logic_error", lerrstr("no optional argument by the name '" \o name \o "'"))
    ELSE Ok(P.m_optional_args[name])

\* Argument_Parser::has_arg
has_arg(P, name) ==
    LET o == lookup_optional(P, name) IN
    IF o.kind # "ok" THEN o ELSE Ok(exists(o.value))

\* Argument_Parser::arg_count
arg_count(P, name) ==
    LET o == lookup_optional(P, name) IN
    IF o.kind # "ok" THEN o ELSE Ok(count(o.value))

(***************************************************************************)
(* The programs checked: declarations made before parsing, and the         *)
(* command lines and retrievals tried.                                     *)
(***************************************************************************)
MaxPositionals == 2

PositionalNames == <<"name", "points", "third">>

\* -f/--filter APPEND, -i/--invert FLAG, -r/--repeat SINGLE after -h/--help
WithOptions ==
    add_optional_flag(
        add_optional_flag(
            add_optional_flag(NewParser, "-f", "--filter", APPEND).parser,
            "-i", "--invert", FLAG).parser,
        "-r", "--repeat", SINGLE).parser

RECURSIVE WithPositionals(_, _)
WithPositionals(P, n) ==
    IF n = 0 THEN P
    ELSE add_positional(WithPositionals(P, n - 1), PositionalNames[n]).parser

Registries == {WithPositionals(WithOptions, n) : n \in 0..MaxPositionals}

Lists(tokens, n) == UNION {[1..k -> tokens] : k \in 0..n}

Prog == "prog"

\* the names a caller gives to errstr_set_script_name
ScriptNames == {"other"}

Tokens == {"Alice", "-5", "-f", "--invert", "-h"}

Inputs == {<<Prog>> \o a : a \in Lists(Tokens, MaxArgs)}

Types == {"bool", "string"}

Defaults == [bool |-> {TRUE}, string |-> {"dflt"}]

Names == {"name", "filter", "invert", "repeat", "unknown"}

\* command lines around the SINGLE option -r/--repeat and unregistered names
MaxOptArgs == 3

OptTokens == {"x", "-r", "--bogus", "-b", "-h"}

\* longer command lines: a SINGLE option given twice with a value each
\* time, and offending tokens behind a valued option
OptLongLists ==
    {<<"-r", "x", "-r", "x">>, <<"-r", "x", "--bogus", "-r">>,
     <<"x", "-r", "x", "-b">>}

OptInputs ==
    {<<Prog>> \o a : a \in Lists(OptTokens, MaxOptArgs) \cup OptLongLists}

OptRegistries == {WithPositionals(WithOptions, n) : n \in 0..1}

\* positionals name and points, -f/--filter APPEND and -i/--invert FLAG
ScenarioParser ==
    add_optional_flag(
        add_optional_flag(
            add_positional(add_positional(NewParser, "name").parser, "points").parser,
            "-f", "--filter", APPEND).parser,
        "-i", "--invert", FLAG).parser

\* prog Alice -f x -f y --invert extra1
ScenarioArgs == <<"Alice", "-f", "x", "-f", "y", "--invert", "extra1">>

\* the tokens of t at the positions in keep, in order, from position i on
RECURSIVE Keep(_, _, _)
Keep(t, keep, i) ==
    IF i > Len(t) THEN <<>>
    ELSE (IF i \in keep THEN <<t[i]>> ELSE <<>>) \o Keep(t, keep, i + 1)

\* the scenario's command line and every command line made of part of it
ScenarioInputs ==
    {<<Prog>> \o Keep(ScenarioArgs, keep, 1) : keep \in SUBSET DOMAIN ScenarioArgs}

\* declarations tried on a fresh parser, valid and invalid, and the command
\* lines parsed against what they leave registered
MaxDecls == 3

DeclPositionals == {"pos0", "opt0", "-pos0"}

DeclLongNames == {"--opt0", "--pos0", "opt1"}

DeclFlags == {"-a", "a", "-h"}

DeclTypes == {FLAG, SINGLE}

DeclPrograms == {Prog, "./tool"}

DeclTokens == {"x", "-a", "--opt0", "-opt0", "--a"}

DeclInputs == {<<p>> \o a : p \in DeclPrograms, a \in Lists(DeclTokens, 2)}

\* command lines on which the two matchers are compared
MatchTokens == {"x", "-5", "-f", "-r", "--invert", "--bogus", "-h"}

MatchInputs == {<<Prog>> \o a : a \in Lists(MatchTokens, MaxArgs)}

\* one positional and one SINGLE optional whose stored tokens are then
\* retrieved as every type
MaxRetrievals == 3

ValueParser ==
    add_optional_flag(add_positional(NewParser, "points").parser,
                      "-r", "--repeat", SINGLE).parser

ValueTokens == {"77", "-5", "-9.5", "abc123", "true", "TRUE", "yes", "on",
                "false", "no", "off", "r", "",
                "70000", "-40000", "99999999999999999999", "re-do", "12abc",
                "77", "0x1p3", "1e400", "1e-5000", "inf", "nan"}

ValueInputs ==
    {<<Prog, v>> : v \in ValueTokens}
    \cup {<<Prog, v, "-r", w>> : v \in {"77", "r"}, w \in ValueTokens}

\* command lines of up to MaxSpellArgs tokens with the references in one
\* spelling or the other
MaxSpellArgs == 4

SpellTokens == {"x", "y", "-f", "--filter", "-r", "-i", "-h"}

SpellInputs == {<<Prog>> \o a : a \in Lists(SpellTokens, MaxSpellArgs)}

\* the command lines of a second call on the same parser
SpellAgain ==
    {<<Prog, "-f", "x", "--filter", "y">>, <<Prog, "--repeat", "x", "-r", "y">>,
     <<Prog, "-i", "--invert">>, <<Prog, "y">>}

ValueTypes ==
    {"bool", "char", "string"} \cup UnsignedTypes \cup SignedTypes \cup FloatingTypes

(***************************************************************************)
(* State machine.                                                          *)
(***************************************************************************)
InitCaller ==
    /\ scriptname = ""
    /\ argc = 1
    /\ argv = <<Prog>>
    /\ call = [op |-> "Argument_Parser"]
    /\ result = Ok("void")
    /\ ncalls = 0

InitParser(P) ==
    /\ m_positional_order = P.m_positional_order
    /\ m_positional_args = P.m_positional_args
    /\ m_optional_order = P.m_optional_order
    /\ m_optional_args = P.m_optional_args
    /\ m_flags = P.m_flags

Init == InitCaller /\ \E P \in Registries : InitParser(P)

\* the process is running and the model's call budget is not used up
CanCall == result.kind \notin {"exit", "abort"} /\ ncalls < MaxCalls

\* the state after parser.parse_args(argc, argv) left the caller with r
AfterParseArgs(a, past_end, r) ==
    /\ m_positional_order' = r.parser.m_positional_order
    /\ m_positional_args' = r.parser.m_positional_args
    /\ m_optional_order' = r.parser.m_optional_order
    /\ m_optional_args' = r.parser.m_optional_args
    /\ m_flags' = r.parser.m_flags
    /\ scriptname' = r.scriptname
    /\ argc' = r.argc
    /\ argv' = r.argv
    /\ call' = [op |-> "parse_args", argc |-> Len(a), argv |-> a,
                past_end |-> past_end]
    /\ result' = r.outcome
    /\ ncalls' = ncalls + 1

\* parser.parse_args(argc, argv) with argv = a and argc = a.size()
ParseArgsOf(inputs) ==
    /\ CanCall
    /\ \E a \in inputs :
          \E past_end \in PastEnd(SubSeq(a, 2, Len(a))) :
             AfterParseArgs(a, past_end, parse_args(Parser, Len(a), a, past_end))

ParseArgs == ParseArgsOf(Inputs)

\* parser.arg<T>(name), arg<T>(name, default), arg_at<T>(name, idx) and
\* arg_at<T>(name, idx, default)
ArgAt ==
    /\ CanCall
    /\ \E T \in Types, has_default \in BOOLEAN, name \in Names, idx \in 0..MaxIdx :
          \E default_val \in Defaults[T] :
             /\ call' = [op |-> "arg_at", T |-> T, has_default |-> has_default,
                         name |-> name, idx |-> idx, default_val |-> default_val]
             /\ result' = arg_at(Parser, scriptname, T, has_default, name, idx, default_val)
             /\ \E P \in {arg_at_this(Parser, T, name, idx)} :
                   /\ m_positional_order' = P.m_positional_order
                   /\ m_positional_args' = P.m_positional_args
                   /\ m_optional_order' = P.m_optional_order
                   /\ m_optional_args' = P.m_optional_args
                   /\ m_flags' = P.m_flags
    /\ ncalls' = ncalls + 1
    /\ UNCHANGED <<scriptname, argc, argv>>

\* parser.has_arg(name)
HasArg ==
    /\ CanCall
    /\ \E name \in Names :
          /\ call' = [op |-> "has_arg", name |-> name]
          /\ result' = has_arg(Parser, name)
    /\ ncalls' = ncalls + 1
    /\ UNCHANGED <<parserVars, scriptname, argc, argv>>

\* parser.arg_count(name)
ArgCount ==
    /\ CanCall
    /\ \E name \in Names :
          /\ call' = [op |-> "arg_count", name |-> name]
          /\ result' = arg_count(Parser, name)
    /\ ncalls' = ncalls + 1
    /\ UNCHANGED <<parserVars, scriptname, argc, argv>>

\* cpparse::errstr_set_script_name(name), which a caller may call as well:
\* _scriptname = name, what errstr puts before the messages from then on
ErrstrSetScriptName ==
    /\ CanCall
    /\ \E name \in ScriptNames :
          /\ scriptname' = name
          /\ call' = [op |-> "errstr_set_script_name", name |-> name]
    /\ result' = Ok("void")
    /\ ncalls' = ncalls + 1
    /\ UNCHANGED <<parserVars, argc, argv>>

Next == ParseArgs \/ ArgAt \/ HasArg \/ ArgCount \/ ErrstrSetScriptName

Spec == Init /\ [][Next]_vars

\* the same interface driven with the command lines of OptInputs
InitOpt == InitCaller /\ \E P \in OptRegistries : InitParser(P)

ParseArgsOpt == ParseArgsOf(OptInputs)

NextOpt == ParseArgsOpt \/ ArgAt \/ HasArg \/ ArgCount \/ ErrstrSetScriptName

SpecOpt == InitOpt /\ [][NextOpt]_vars

\* the same interface on the scenario's parser and command lines
InitScenario == InitCaller /\ InitParser(ScenarioParser)

ParseArgsScenario == ParseArgsOf(ScenarioInputs)

NextScenario ==
    ParseArgsScenario \/ ArgAt \/ HasArg \/ ArgCount \/ ErrstrSetScriptName

SpecScenario == InitScenario /\ [][NextScenario]_vars

\* the state after a declaration returned or threw r
AfterDeclaration(c, r) ==
    /\ m_positional_order' = r.parser.m_positional_order
    /\ m_positional_args' = r.parser.m_positional_args
    /\ m_optional_order' = r.parser.m_optional_order
    /\ m_optional_args' = r.parser.m_optional_args
    /\ m_flags' = r.parser.m_flags
    /\ call' = c
    /\ result' = IF r.kind = "ok" THEN Ok("info") ELSE Throw(r.kind, r.what)
    /\ ncalls' = ncalls + 1
    /\ UNCHANGED <<scriptname, argc, argv>>

\* declarations are made before the command line is parsed
CanDeclare == ncalls < MaxDecls /\ call.op # "parse_args"

\* parser.add_positional(name)
AddPositional ==
    /\ CanDeclare
    /\ \E name \in DeclPositionals :
          AfterDeclaration([op |-> "add_positional", name |-> name],
                           add_positional(Parser, name))

\* parser.add_optional(long_name, type)
AddOptional ==
    /\ CanDeclare
    /\ \E long_name \in DeclLongNames, type \in DeclTypes :
          AfterDeclaration([op |-> "add_optional", flag |-> NO_FLAG,
                            long_name |-> long_name, type |-> type],
                           add_optional(Parser, long_name, type))

\* parser.add_optional(flag, long_name, type)
AddOptionalFlag ==
    /\ CanDeclare
    /\ \E flag \in DeclFlags, long_name \in DeclLongNames :
          AfterDeclaration([op |-> "add_optional_flag", flag |-> flag,
                            long_name |-> long_name, type |-> APPEND],
                           add_optional_flag(Parser, flag, long_name, APPEND))

\* parser.parse_args(argc, argv) once the declarations are made
ParseArgsDecl ==
    /\ call.op # "parse_args"
    /\ \E a \in DeclInputs :
          \E past_end \in PastEnd(SubSeq(a, 2, Len(a))) :
             AfterParseArgs(a, past_end, parse_args(Parser, Len(a), a, past_end))

InitDecl == InitCaller /\ InitParser(NewParser)

NextDecl == AddPositional \/ AddOptional \/ AddOptionalFlag \/ ParseArgsDecl

SpecDecl == InitDecl /\ [][NextDecl]_vars

\* the same interface on the stored tokens of ValueInputs
InitValue == InitCaller /\ InitParser(ValueParser)

ParseArgsValue == ncalls <= 1 /\ ParseArgsOf(ValueInputs)

\* parser.arg<T>(name) for every T
ArgValue ==
    /\ result.kind \notin {"exit", "abort"}
    /\ ncalls <= MaxRetrievals
    /\ \E T \in ValueTypes, name \in {"points", "repeat"} :
          /\ call' = [op |-> "arg_at", T |-> T, has_default |-> FALSE,
                      name |-> name, idx |-> 0, default_val |-> ""]
          /\ result' = arg_at(Parser, scriptname, T, FALSE, name, 0, "")
          /\ \E P \in {arg_at_this(Parser, T, name, 0)} :
                /\ m_positional_order' = P.m_positional_order
                /\ m_positional_args' = P.m_positional_args
                /\ m_optional_order' = P.m_optional_order
                /\ m_optional_args' = P.m_optional_args
                /\ m_flags' = P.m_flags
    /\ ncalls' = ncalls + 1
    /\ UNCHANGED <<scriptname, argc, argv>>

NextValue == ParseArgsValue \/ ArgValue \/ ErrstrSetScriptName

SpecValue == InitValue /\ [][NextValue]_vars

\* parse_args alone, on the command lines of MatchInputs
ParseArgsMatch == ParseArgsOf(MatchInputs)

NextMatch == ParseArgsMatch

SpecMatch == InitOpt /\ [][NextMatch]_vars

\* parse_args alone, on command lines long enough for an APPEND optional to
\* take two values and for a SINGLE optional to be referred to twice, and
\* then once more on the same parser
ParseArgsSpell == ParseArgsOf(IF ncalls = 0 THEN SpellInputs ELSE SpellAgain)

NextSpell == ParseArgsSpell

SpecSpell == InitOpt /\ [][NextSpell]_vars

(***************************************************************************)
(* Vocabulary of the properties: the token list of the last parse_args     *)
(* call read position by position against the registry.                    *)
(***************************************************************************)
\* the tokens after argv[0] handed to the last parse_args call
Args == SubSeq(call.argv, 2, call.argc)

Parsed == call.op = "parse_args"

ParsedOk == Parsed /\ result.kind = "ok"

\* the token has the shape of an option name
IsOptionToken(tok) == format_flag_name(tok) # NO_FLAG \/ format_option_name(tok) # ""

\* the registered optional a token of option shape refers to, "" when none
Refers(tok) ==
    IF format_flag_name(tok) # NO_FLAG
    THEN IF format_flag_name(tok) \in DOMAIN m_flags
         THEN m_flags[format_flag_name(tok)] ELSE ""
    ELSE IF format_option_name(tok) \in DOMAIN m_optional_args
         THEN format_option_name(tok) ELSE ""

TakesValue(tok) ==
    /\ Refers(tok) # ""
    /\ m_optional_args[Refers(tok)].m_type \in {SINGLE, APPEND}

\* position i holds the value of the SINGLE/APPEND reference just before it
RECURSIVE IsValueAt(_, _)
IsValueAt(t, i) ==
    /\ i > 1
    /\ IsOptionToken(t[i - 1])
    /\ ~IsValueAt(t, i - 1)
    /\ TakesValue(t[i - 1])

\* position i holds an option reference
IsRefAt(t, i) == IsOptionToken(t[i]) /\ ~IsValueAt(t, i)

\* position i refers to the registered optional name
RefersAt(t, i, name) == IsRefAt(t, i) /\ Refers(t[i]) = name

\* the positional buffer: tokens that are neither option references nor
\* values consumed by a SINGLE/APPEND option, in input order
RECURSIVE PosBufferFrom(_, _)
PosBufferFrom(t, i) ==
    IF i > Len(t) THEN <<>>
    ELSE (IF ~IsRefAt(t, i) /\ ~IsValueAt(t, i) THEN <<t[i]>> ELSE <<>>)
         \o PosBufferFrom(t, i + 1)

PosBuffer(t) == PosBufferFrom(t, 1)

\* position i is a reference to -h/--help
HelpRefAt(t, i) == RefersAt(t, i, "help")

\* position i is a reference that classification rejects: unregistered, a
\* repeated FLAG or SINGLE, or a SINGLE/APPEND without a value after it
BadRefAt(t, i) ==
    /\ IsRefAt(t, i)
    /\ ~HelpRefAt(t, i)
    /\ \/ Refers(t[i]) = ""
       \/ /\ Refers(t[i]) # ""
          /\ m_optional_args[Refers(t[i])].m_type # APPEND
          /\ \E j \in 1..(i - 1) : RefersAt(t, j, Refers(t[i]))
       \/ /\ TakesValue(t[i])
          /\ (i = Len(t) \/ IsOptionToken(t[i + 1]))

\* classification gets to position i: nothing before it raised an error or
\* showed the help text
Reached(t, i) == \A j \in 1..(i - 1) : ~BadRefAt(t, j) /\ ~HelpRefAt(t, j)

NoOptionError(t) == \A i \in DOMAIN t : ~BadRefAt(t, i)

NoHelp(t) == \A i \in DOMAIN t : ~HelpRefAt(t, i)

NumPositionals == Len(m_positional_order)

MissingPositional(script, name) ==
    Throw("runtime_error", errstr(script, "requires positional argument '" \o name \o "'"))

\* the positions of the references to the registered optional name
RefPositions(t, name) == {i \in DOMAIN t : RefersAt(t, i, name)}

\* the position of the k-th reference among refs, k counted from 1
NthRef(refs, k) == CHOOSE j \in refs : Cardinality({i \in refs : i < j}) = k - 1

\* position i is followed by a token that can serve as a value
HasValueAfter(t, i) == i < Len(t) /\ ~valid_option_name(t[i + 1])

OptionalsOf(type) ==
    {o \in DOMAIN m_optional_args : m_optional_args[o].m_type = type /\ o # "help"}

OnlyOnce(script, name) ==
    Throw("runtime_error", errstr(script, "'" \o name \o "' should only be specified once"))

RequiresValue(script, name) ==
    Throw("runtime_error", errstr(script, "'" \o name \o "' requires a value"))

InvalidFlag(script, tok) ==
    Throw("runtime_error", errstr(script,
        "invalid flag '" \o tok \o "', pass --help to display possible options"))

InvalidOption(script, name) ==
    Throw("runtime_error", errstr(script,
        "invalid option '" \o name \o "', pass --help to display possible options"))

OutOfRange(idx, name) ==
    Throw("out_of_range",
        lerrstr("index " \o ToString(idx) \o " is out of range for '" \o name \o "'"))

\* the last call was index-based retrieval of an optional without a default
IndexedNoDefault ==
    /\ call.op = "arg_at"
    /\ ~call.has_default
    /\ call.name \in DOMAIN m_optional_args

\* what is wrong with the name of add_positional(name) on registry P: the
\* configuration errors that identify it
PositionalOffences(P, name) ==
    {lerrstr("invalid positional argument name '" \o name \o "'") :
        x \in {1} \cap {IF valid_positional_name(name) THEN 0 ELSE 1}}
    \cup
    {lerrstr("positional argument name conflicts with optional argument reference name '"
             \o name \o "'") :
        x \in {1} \cap {IF name \in DOMAIN P.m_optional_args THEN 1 ELSE 0}}
    \cup
    {lerrstr("duplicate positional argument name '" \o name \o "'") :
        x \in {1} \cap {IF name \in DOMAIN P.m_positional_args THEN 1 ELSE 0}}

\* the same for the long name of add_optional
LongNameOffences(P, long_name) ==
    {lerrstr("invalid optional argument name: " \o long_name) :
        x \in {1} \cap {IF format_option_name(long_name) = "" THEN 1 ELSE 0}}
    \cup
    {lerrstr("optional argument reference name conflicts with positional argument name '"
             \o format_option_name(long_name) \o "'") :
        x \in {1} \cap {IF format_option_name(long_name) \in DOMAIN P.m_positional_args
                        THEN 1 ELSE 0}}
    \cup
    {lerrstr("duplicate optional argument name '" \o format_option_name(long_name) \o "'") :
        x \in {1} \cap {IF format_option_name(long_name) \in DOMAIN P.m_optional_args
                        THEN 1 ELSE 0}}

\* the same for the flag of add_optional(flag, long_name, type)
FlagOffences(P, flag) ==
    {lerrstr("invalid flag name '" \o flag \o "'") :
        x \in {1} \cap {IF format_flag_name(flag) = NO_FLAG THEN 1 ELSE 0}}
    \cup
    {lerrstr("duplicate flag name '" \o flag \o "'") :
        x \in {1} \cap {IF format_flag_name(flag) \in DOMAIN P.m_flags THEN 1 ELSE 0}}

\* the offences of declaration c on registry P
Offences(P, c) ==
    IF c.op = "add_positional" THEN PositionalOffences(P, c.name)
    ELSE IF c.op = "add_optional" THEN LongNameOffences(P, c.long_name)
    ELSE FlagOffences(P, c.flag) \cup LongNameOffences(P, c.long_name)

\* the last call was a retrieval of an optional with no recorded occurrence
RetrievedAbsent ==
    /\ call.op = "arg_at"
    /\ call.name \in DOMAIN m_optional_args
    /\ count(m_optional_args[call.name]) = 0

NoValueGiven(name) ==
    Throw("logic_error",
        lerrstr("no value given for '" \o name \o "' and no default specified"))

\* the argument the last retrieval named holds a token
HasStored(name) ==
    \/ name \in DOMAIN m_positional_args
    \/ name \in DOMAIN m_optional_args /\ exists(m_optional_args[name])

\* the token retrieval reads at index 0
StoredToken(name) ==
    IF name \in DOMAIN m_positional_args
    THEN m_positional_args[name].m_value
    ELSE m_optional_args[name].m_values[1]

\* the last call retrieved a stored token as an integer type
RetrievedInteger ==
    /\ call.op = "arg_at"
    /\ HasStored(call.name)
    /\ call.T \in UnsignedTypes \cup SignedTypes

\* a decimal integer literal: an optional sign, then digits only
IntegerLiteral(v) ==
    /\ Len(v) >= 1
    /\ \/ CharAt(v, 1) \in Digit
       \/ CharAt(v, 1) \in {"+", "-"} /\ Len(v) >= 2
    /\ AllIn(v, 2, Digit)

\* the text does not start with a number
NotNumeric(v) ==
    ~ \/ Len(v) >= 1 /\ CharAt(v, 1) \in Digit
      \/ Len(v) >= 2 /\ CharAt(v, 1) \in {"+", "-"} /\ CharAt(v, 2) \in Digit

\* the value of an integer literal
LiteralValue(v) ==
    IF CharAt(v, 1) \in {"+", "-"}
    THEN Num(CharAt(v, 1) = "-", StripZeros(SubSeq(v, 2, Len(v))))
    ELSE Num(FALSE, StripZeros(v))

MustBeIntegral(script, name) ==
    Throw("runtime_error", errstr(script, "'" \o name \o "' must be of integral type"))

MustBeInRange(script, name, T) ==
    Throw("runtime_error", errstr(script,
        "'" \o name \o "' must be in range [" \o NumText(numeric_limits[T].min)
        \o "," \o NumText(numeric_limits[T].max) \o "]"))

MustBeBoolean(script, name) ==
    Throw("runtime_error", errstr(script,
        "'" \o name \o "' must be one of: 'true', 'false', 'yes', 'no', 'on', 'off'"))

\* text starts with prefix
StartsWith(text, prefix) ==
    Len(text) >= Len(prefix) /\ SubSeq(text, 1, Len(prefix)) = prefix

\* '-' and exactly one non-digit word character
FlagShape(tok) == Len(tok) = 2 /\ CharAt(tok, 1) = "-" /\ CharAt(tok, 2) \in NameStart

\* dashes many '-', then a name of two or more characters
LongShape(tok, dashes) ==
    /\ Len(tok) >= dashes + 2
    /\ \A j \in 1..dashes : CharAt(tok, j) = "-"
    /\ CharAt(tok, dashes + 1) \in NameStart
    /\ AllIn(tok, dashes + 2, NameRest)

\* the walk takes the token for an option reference, not for a positional
TreatedAsOption(tok) ==
    lookup_formatted_option_name(Parser, call.argv[1], tok) # Ok("")

\* '-' and a digit, then anything: the look of a negative number
DashDigit(tok) == Len(tok) >= 2 /\ CharAt(tok, 1) = "-" /\ CharAt(tok, 2) \in Digit

\* position i comes right after a reached reference to a SINGLE/APPEND optional
AfterValueRef(t, i) ==
    /\ i > 1
    /\ IsRefAt(t, i - 1)
    /\ Reached(t, i - 1)
    /\ TakesValue(t[i - 1])

\* what a successful parse_args made of the positional buffer: the values
\* bound to the declared positionals, then the leftovers
BoundThenLeft ==
    [i \in 1..NumPositionals |-> m_positional_args[m_positional_order[i]].m_value]
    \o SubSeq(argv, 2, argc)

(***************************************************************************)
(* C1: after a successful parse_args the i-th declared positional holds    *)
(* the i-th token of the positional buffer, wherever the options stand.    *)
(***************************************************************************)
C1_PositionalsBoundInOrder ==
    ParsedOk =>
        /\ Len(PosBuffer(Args)) >= NumPositionals
        /\ \A i \in 1..NumPositionals :
              m_positional_args[m_positional_order[i]].m_value = PosBuffer(Args)[i]

\* two positionals bound around a flag, after a valued option
C1_Witness ==
    /\ ParsedOk
    /\ NumPositionals = 2
    /\ \E i \in DOMAIN Args : IsRefAt(Args, i) /\ i > 1 /\ i < Len(Args)
    /\ m_positional_args["name"].m_value # m_positional_args["points"].m_value

(***************************************************************************)
(* C2: with k < N positional-buffer entries and no option error, a         *)
(* -h/--help reference (which ends the process before the positionals are  *)
(* counted) set aside, parse_args fails with the missing-positional error  *)
(* naming the (k+1)-th declared positional.                                *)
(***************************************************************************)
C2_MissingPositionalNamed ==
    (/\ Parsed
     /\ NoOptionError(Args)
     /\ NoHelp(Args)
     /\ Len(PosBuffer(Args)) < NumPositionals)
    => result = MissingPositional(call.argv[1],
                    m_positional_order[Len(PosBuffer(Args)) + 1])

(***************************************************************************)
(* C3: after a successful parse_args with M >= N positional-buffer entries *)
(* argc is M - N + 1, argv[0] is still the program name and argv[1..] are  *)
(* the buffer entries N+1..M in order; no option token is left over.       *)
(***************************************************************************)
C3_LeftoversInOrder ==
    ParsedOk =>
        LET M == Len(PosBuffer(Args)) IN
        /\ M >= NumPositionals
        /\ argc = M - NumPositionals + 1
        /\ argv[1] = call.argv[1]
        /\ \A j \in 1..(M - NumPositionals) :
              /\ argv[j + 1] = PosBuffer(Args)[NumPositionals + j]
              /\ ~IsOptionToken(argv[j + 1])

\* one positional bound, two different leftovers handed back
C3_Witness ==
    /\ ParsedOk
    /\ NumPositionals = 1
    /\ argc = 3
    /\ argv[2] # argv[3]
    /\ argv[2] # m_positional_args["name"].m_value

(***************************************************************************)
(* C4: a parse_args call that fails with an error leaves every             *)
(* positional's value, every optional's value list, argc and every argv    *)
(* slot as they were before the call.                                      *)
(***************************************************************************)
C4_FailureChangesNothing ==
    [][(call'.op = "parse_args" /\ ncalls' = ncalls + 1
        /\ result'.kind \notin {"ok", "exit"})
       => /\ m_positional_args' = m_positional_args
          /\ m_optional_args' = m_optional_args
          /\ m_positional_order' = m_positional_order
          /\ m_optional_order' = m_optional_order
          /\ m_flags' = m_flags
          /\ argc' = call'.argc
          /\ argv' = call'.argv]_vars

\* a failed call on a parser that an earlier call had populated
C4_Witness ==
    /\ Parsed
    /\ result.kind = "runtime_error"
    /\ ncalls = 2
    /\ \E name \in DOMAIN m_positional_args : m_positional_args[name].m_value # ""
    /\ \E name \in DOMAIN m_optional_args : m_optional_args[name].m_values # <<>>

(***************************************************************************)
(* C5: for a FLAG optional referenced k times in the token list: when the  *)
(* walk gets to a second reference parse_args fails there with the         *)
(* specified-once error; after a successful parse with k = 1 one           *)
(* occurrence is recorded and boolean retrieval yields true; after a       *)
(* successful parse with k = 0 boolean retrieval without a default yields  *)
(* false and has_arg / arg_count report false / 0.                         *)
(***************************************************************************)
C5_FlagOccurrences ==
    Parsed =>
        \A f \in OptionalsOf(FLAG) :
            LET refs == RefPositions(Args, f) IN
            /\ \A j \in refs :
                  (Cardinality({i \in refs : i < j}) = 1 /\ Reached(Args, j))
                  => result = OnlyOnce(call.argv[1], f)
            /\ (Cardinality(refs) = 1 /\ result.kind = "ok")
               => /\ arg_count(Parser, f) = Ok(1)
                  /\ arg_at(Parser, scriptname, "bool", FALSE, f, 0, FALSE) = Ok(TRUE)
            /\ (Cardinality(refs) = 0 /\ result.kind = "ok")
               => /\ arg_at(Parser, scriptname, "bool", FALSE, f, 0, FALSE) = Ok(FALSE)
                  /\ has_arg(Parser, f) = Ok(FALSE)
                  /\ arg_count(Parser, f) = Ok(0)

(***************************************************************************)
(* C6: for a SINGLE optional, a reference the walk gets to that is the     *)
(* last token or is followed by a token of option shape fails with         *)
(* 'requires a value'; a second reference with a valid value after each    *)
(* fails with the specified-once error; exactly one reference followed by  *)
(* a valid value, in a token list with no other option error, no           *)
(* -h/--help reference and enough positional tokens, succeeds and stores   *)
(* exactly that value.                                                     *)
(***************************************************************************)
C6_SingleValue ==
    Parsed =>
        \A s \in OptionalsOf(SINGLE) :
            LET refs == RefPositions(Args, s) IN
            /\ \A i \in refs :
                  (Reached(Args, i) /\ ~HasValueAfter(Args, i))
                  => result = RequiresValue(call.argv[1], s)
            /\ \A i, j \in refs :
                  (/\ i < j
                   /\ HasValueAfter(Args, i)
                   /\ HasValueAfter(Args, j)
                   /\ Reached(Args, j))
                  => result = OnlyOnce(call.argv[1], s)
            /\ \A i \in refs :
                  (/\ refs = {i}
                   /\ HasValueAfter(Args, i)
                   /\ NoOptionError(Args)
                   /\ NoHelp(Args)
                   /\ Len(PosBuffer(Args)) >= NumPositionals)
                  => /\ result.kind = "ok"
                     /\ m_optional_args[s].m_values = <<Args[i + 1]>>

(***************************************************************************)
(* C7: after a successful parse_args of a token list with n >= 0           *)
(* references to an APPEND optional, arg_count is n and the value at       *)
(* index i < n is the token right after the (i+1)-th reference.            *)
(***************************************************************************)
C7_AppendInOrder ==
    ParsedOk =>
        \A a \in OptionalsOf(APPEND) :
            LET refs == RefPositions(Args, a)
                n == Cardinality(refs)
            IN  /\ arg_count(Parser, a) = Ok(n)
                /\ \A i \in 0..(n - 1) :
                      arg_at(Parser, scriptname, "string", FALSE, a, i, "")
                      = Ok(Args[NthRef(refs, i + 1) + 1])

(***************************************************************************)
(* C8 as claimed: for an optional with N >= 0 recorded occurrences,        *)
(* N = 0 included, retrieval without a default at an index idx >= N fails  *)
(* with the out-of-range error naming the index and the argument.          *)
(***************************************************************************)
C8_Original ==
    (IndexedNoDefault /\ call.idx >= count(m_optional_args[call.name]))
    => result = OutOfRange(call.idx, call.name)

(***************************************************************************)
(* C8 amended: for an optional with N >= 1 recorded occurrences, retrieval *)
(* without a default at an index idx >= N fails with the out-of-range      *)
(* error naming the index and the argument.                                *)
(***************************************************************************)
C8_IndexOutOfRange ==
    (/\ IndexedNoDefault
     /\ count(m_optional_args[call.name]) >= 1
     /\ call.idx >= count(m_optional_args[call.name]))
    => result = OutOfRange(call.idx, call.name)

\* index 2 asked of an APPEND optional holding one value
C8_Witness ==
    /\ IndexedNoDefault
    /\ call.name = "filter"
    /\ count(m_optional_args["filter"]) = 1
    /\ call.idx = 2
    /\ result.kind = "out_of_range"

(***************************************************************************)
(* C9: a token of option shape that the walk gets to in option position    *)
(* and that names no registered long name and no registered flag makes     *)
(* parse_args fail with the invalid-option error for that token, whose     *)
(* message tells to pass --help, for long names and for single-character   *)
(* flags alike.                                                            *)
(***************************************************************************)
C9_UnregisteredRejected ==
    Parsed =>
        \A i \in DOMAIN Args :
            (IsRefAt(Args, i) /\ Refers(Args[i]) = "" /\ Reached(Args, i))
            => result = IF format_flag_name(Args[i]) # NO_FLAG
                        THEN InvalidFlag(call.argv[1], Args[i])
                        ELSE InvalidOption(call.argv[1], format_option_name(Args[i]))

(***************************************************************************)
(* C10 as claimed: with positionals name and points, -f/--filter APPEND    *)
(* and -i/--invert FLAG, parsing 'prog Alice -f x -f y --invert extra1'    *)
(* fails with the missing-positional error for 'points'.                   *)
(***************************************************************************)
C10_Original ==
    (Parsed /\ Args = ScenarioArgs)
    => result = MissingPositional(Prog, "points")

\* the past-the-end word of the scenario's call is the second or the fourth
\* user argument, the value after the first or the second -f
WordAtFilterValue == call.past_end \in {Ok([at |-> 3]), Ok([at |-> 5])}

(***************************************************************************)
(* C10 amended: with the same declarations, parsing                        *)
(* 'prog Alice -f x -f y --invert extra1' never fails with a               *)
(* missing-positional error.  It succeeds with name 'Alice', points        *)
(* 'extra1', filter values x then y, invert recorded once and no leftover  *)
(* (argc 1), unless the word the tokenizer reads past the end of its       *)
(* argument vector stops the call: read as the address of x or of y it     *)
(* makes the call fail with 'filter' requires a value, and a build that    *)
(* traps the read aborts the process.                                      *)
(***************************************************************************)
C10_ScenarioBinds ==
    (Parsed /\ Args = ScenarioArgs)
    => /\ result.kind = "abort" <=> call.past_end.kind = "abort"
       /\ result = RequiresValue(Prog, "filter") <=> WordAtFilterValue
       /\ result.kind \in {"ok", "abort"} \/ result = RequiresValue(Prog, "filter")
       /\ result.kind = "ok"
          => /\ m_positional_args["name"].m_value = "Alice"
             /\ m_positional_args["points"].m_value = "extra1"
             /\ m_optional_args["filter"].m_values = <<"x", "y">>
             /\ m_optional_args["invert"].m_values = <<"true">>
             /\ argc = 1
             /\ argv[1] = Prog

\* the scenario's command line was parsed and 'extra1' bound to 'points'
C10_Witness ==
    /\ Parsed
    /\ Args = ScenarioArgs
    /\ result.kind = "ok"
    /\ m_positional_args["points"].m_value = "extra1"

(***************************************************************************)
(* C11: a declaration whose name is invalid, already declared, already     *)
(* used as a flag or taken in the other namespace fails with a             *)
(* configuration error that identifies an offending name of that call.     *)
(***************************************************************************)
C11_BadDeclarationRejected ==
    [][(/\ call'.op \in {"add_positional", "add_optional", "add_optional_flag"}
        /\ ncalls' = ncalls + 1
        /\ Offences(Parser, call') # {})
       => /\ result'.kind = "logic_error"
          /\ result'.what \in Offences(Parser, call')]_vars

\* a positional rejected for a name an optional holds, as third declaration
C11_Witness ==
    /\ call.op = "add_positional"
    /\ ncalls = 3
    /\ "opt0" \in DOMAIN m_optional_args
    /\ "pos0" \in DOMAIN m_positional_args
    /\ result = Throw("logic_error", lerrstr(
           "positional argument name conflicts with optional argument reference name 'opt0'"))

(***************************************************************************)
(* C12: retrieving an optional with zero recorded occurrences returns the  *)
(* caller's default when one is given, whatever the arity; without a       *)
(* default it returns false for a FLAG and fails with "no value given for  *)
(* '<name>' and no default specified" for a SINGLE or APPEND.              *)
(***************************************************************************)
C12_AbsentOptional ==
    RetrievedAbsent =>
        IF call.has_default
        THEN result = Ok(call.default_val)
        ELSE IF m_optional_args[call.name].m_type = FLAG
        THEN result = Ok(IF call.T = "bool" THEN FALSE ELSE "false")
        ELSE result = NoValueGiven(call.name)

\* an absent FLAG retrieved with default true after a successful parse
C12_Witness ==
    /\ RetrievedAbsent
    /\ call.name = "invert"
    /\ call.has_default
    /\ call.T = "bool"
    /\ result = Ok(TRUE)
    /\ m_optional_args["filter"].m_values # <<>>

(***************************************************************************)
(* C13: retrieving a stored negative integer literal as an unsigned        *)
(* integer type fails with the must-be-in-range error of that type; no     *)
(* wrapped-around value is returned.                                       *)
(***************************************************************************)
C13_NegativeNotWrapped ==
    (/\ RetrievedInteger
     /\ call.T \in UnsignedTypes
     /\ IntegerLiteral(StoredToken(call.name))
     /\ CharAt(StoredToken(call.name), 1) = "-")
    => result = MustBeInRange(scriptname, call.name, call.T)

\* "-5" asked for as unsigned long long, the width 2^64 - 5 would fit
C13_Witness ==
    /\ RetrievedInteger
    /\ call.T = "unsigned long long"
    /\ call.name = "repeat"
    /\ StoredToken("repeat") = "-5"
    /\ result.kind = "runtime_error"

(***************************************************************************)
(* C14: retrieving as any integer type a stored text that is not numeric   *)
(* at all fails with the must-be-of-integral-type error, and an integer    *)
(* literal outside the type's [min,max] fails with the must-be-in-range    *)
(* error; neither error stands in for the other.                           *)
(***************************************************************************)
C14_IntegerErrors ==
    RetrievedInteger =>
        /\ NotNumeric(StoredToken(call.name))
           => result = MustBeIntegral(scriptname, call.name)
        /\ (/\ IntegerLiteral(StoredToken(call.name))
            /\ \/ NumLess(LiteralValue(StoredToken(call.name)), numeric_limits[call.T].min)
               \/ NumLess(numeric_limits[call.T].max, LiteralValue(StoredToken(call.name))))
           => result = MustBeInRange(scriptname, call.name, call.T)

(***************************************************************************)
(* C15: retrieving a stored token as bool yields true for exactly "true",  *)
(* "yes", "on", false for exactly "false", "no", "off", and for every      *)
(* other text, numeric or differently cased, fails with the user-input     *)
(* error that lists the accepted literals.                                 *)
(***************************************************************************)
C15_BooleanLiterals ==
    (call.op = "arg_at" /\ HasStored(call.name) /\ call.T = "bool")
    => result = IF StoredToken(call.name) \in {"true", "yes", "on"} THEN Ok(TRUE)
                ELSE IF StoredToken(call.name) \in {"false", "no", "off"} THEN Ok(FALSE)
                ELSE MustBeBoolean(scriptname, call.name)

\* the upper-case literal is refused
C15_Witness ==
    /\ call.op = "arg_at"
    /\ call.T = "bool"
    /\ call.name = "points"
    /\ StoredToken("points") = "TRUE"
    /\ result = MustBeBoolean(Prog, "points")

(***************************************************************************)
(* C16: a retrieval, failing or not, leaves every stored value, has_arg    *)
(* and arg_count as they were; retrieving a stored token as string returns *)
(* it unchanged; the outcome of retrieving a stored token is that of       *)
(* converting this token to the requested type, whatever was retrieved     *)
(* before; and the token "77" comes back as 77 for unsigned int, as "77"   *)
(* for string and fails for bool.                                          *)
(***************************************************************************)
C16_RetrievalPure ==
    [][(call'.op = "arg_at" /\ ncalls' = ncalls + 1)
       => /\ m_positional_args' = m_positional_args
          /\ m_optional_args' = m_optional_args
          /\ has_arg(Parser, "repeat")' = has_arg(Parser, "repeat")
          /\ arg_count(Parser, "repeat")' = arg_count(Parser, "repeat")
          /\ HasStored(call'.name)
             => /\ call'.T = "string" => result' = Ok(StoredToken(call'.name))
                /\ result' = parse_as_type(call'.T, scriptname, call'.name,
                                           StoredToken(call'.name))
          /\ (HasStored(call'.name) /\ StoredToken(call'.name) = "77")
             => /\ call'.T = "unsigned int" => result' = Ok(Num(FALSE, "77"))
                /\ call'.T = "bool" => result' = MustBeBoolean(scriptname, call'.name)]_vars

\* "77" read back as unsigned int by the third retrieval after the parse
C16_Witness ==
    /\ call.op = "arg_at"
    /\ ncalls = 4
    /\ scriptname = Prog
    /\ call.name = "points"
    /\ call.T = "unsigned int"
    /\ StoredToken("points") = "77"
    /\ result = Ok(Num(FALSE, "77"))

(***************************************************************************)
(* C17: an error raised by parse_args is a user-input error whose message  *)
(* starts with argv[0] of that call and ': '; an error raised by a         *)
(* declaration is a configuration error whose message starts with          *)
(* 'Argument_Parser: '; neither call raises the other category.  A call    *)
(* that ends the process (help shown, or the read past the argument vector *)
(* trapped) raises no error.                                               *)
(***************************************************************************)
C17_ErrorCategories ==
    /\ (Parsed /\ result.kind \notin {"ok", "exit", "abort"})
       => /\ result.kind = "runtime_error"
          /\ StartsWith(result.what, call.argv[1] \o ": ")
    /\ (/\ call.op \in {"add_positional", "add_optional", "add_optional_flag"}
        /\ result.kind # "ok")
       => /\ result.kind = "logic_error"
          /\ StartsWith(result.what, "Argument_Parser: ")

\* a user-input error under the second program name, after a declaration
C17_Witness ==
    /\ Parsed
    /\ call.argv[1] = "./tool"
    /\ result.kind = "runtime_error"
    /\ "pos0" \in DOMAIN m_positional_args
    /\ StartsWith(result.what, "./tool: ")

(***************************************************************************)
(* C18: parse_args shows the help and ends the process with status 0 if    *)
(* and only if the walk gets to a token that refers to 'help' (-h or       *)
(* --help) in option position; then nothing after that token counts: no    *)
(* later error is reported, no value is assigned and argc/argv stay as     *)
(* passed.                                                                 *)
(***************************************************************************)
C18_HelpShortCircuits ==
    [][(call'.op = "parse_args" /\ ncalls' = ncalls + 1)
       => /\ (result'.kind = "exit")
             = (\E i \in DOMAIN Args' : HelpRefAt(Args', i) /\ Reached(Args', i))
          /\ result'.kind = "exit"
             => /\ result' = Exit(0)
                /\ m_positional_args' = m_positional_args
                /\ m_optional_args' = m_optional_args
                /\ argc' = call'.argc
                /\ argv' = call'.argv]_vars

(***************************************************************************)
(* C19 as claimed: a token is taken for an option reference if and only    *)
(* if it is '-' and one non-digit word character or '--' and a             *)
(* multi-character name; the tokens of any other shape that are not the    *)
(* value of an option make up the positional buffer in input order, and a  *)
(* token list of such tokens only raises no option error.                  *)
(***************************************************************************)
C19_Original ==
    Parsed =>
        /\ \A i \in DOMAIN Args :
              TreatedAsOption(Args[i]) = (FlagShape(Args[i]) \/ LongShape(Args[i], 2))
        /\ ParsedOk => BoundThenLeft = PosBuffer(Args)
        /\ (/\ result.kind # "ok"
            /\ \A i \in DOMAIN Args : ~FlagShape(Args[i]) /\ ~LongShape(Args[i], 2))
           => result = MissingPositional(call.argv[1],
                           m_positional_order[Len(PosBuffer(Args)) + 1])

(***************************************************************************)
(* C19 amended: a token is taken for an option reference if and only if    *)
(* it is '-' and one non-digit word character, or '-' or '--' and a        *)
(* multi-character name; the tokens of any other shape that are not the    *)
(* value of an option make up the positional buffer in input order, and a  *)
(* token list of such tokens only raises no option error.                  *)
(***************************************************************************)
C19_OptionShape ==
    Parsed =>
        /\ \A i \in DOMAIN Args :
              TreatedAsOption(Args[i])
              = (FlagShape(Args[i]) \/ LongShape(Args[i], 1) \/ LongShape(Args[i], 2))
        /\ ParsedOk => BoundThenLeft = PosBuffer(Args)
        /\ (/\ result.kind # "ok"
            /\ \A i \in DOMAIN Args :
                  ~FlagShape(Args[i]) /\ ~LongShape(Args[i], 1) /\ ~LongShape(Args[i], 2))
           => result = MissingPositional(call.argv[1],
                           m_positional_order[Len(PosBuffer(Args)) + 1])

\* a single-dash long name taken as a reference to a declared optional,
\* next to '--a', which is bound as a positional
C19_Witness ==
    /\ ParsedOk
    /\ Args = <<"--a", "-opt0">>
    /\ m_positional_order = <<"pos0">>
    /\ m_positional_args["pos0"].m_value = "--a"
    /\ "opt0" \in DOMAIN m_optional_args
    /\ m_optional_args["opt0"].m_values = <<"true">>

(***************************************************************************)
(* C20: a token that is '-' and a digit is never taken for an option       *)
(* reference.  In positional position a successful parse binds it to a     *)
(* positional or leaves it among the leftovers, at its place in input      *)
(* order; right after a reference to a SINGLE or APPEND optional the parse *)
(* does not fail with 'requires a value' for that optional unless another  *)
(* reference to it lacks a value, and a successful parse stores the token  *)
(* as that reference's value.                                              *)
(***************************************************************************)
C20_NegativeNumbers ==
    Parsed =>
        \A i \in DOMAIN Args :
            DashDigit(Args[i]) =>
                /\ ~TreatedAsOption(Args[i])
                /\ ~valid_option_name(Args[i])
                /\ (ParsedOk /\ ~IsValueAt(Args, i)) =>
                       BoundThenLeft[Len(PosBuffer(SubSeq(Args, 1, i)))] = Args[i]
                /\ AfterValueRef(Args, i) =>
                       /\ (\A j \in RefPositions(Args, Refers(Args[i - 1])) \ {i - 1} :
                               HasValueAfter(Args, j))
                          => result # RequiresValue(call.argv[1], Refers(Args[i - 1]))
                       /\ ParsedOk =>
                              m_optional_args[Refers(Args[i - 1])].m_values[
                                  Cardinality({j \in RefPositions(Args, Refers(Args[i - 1])) : j < i})]
                              = Args[i]

\* the last call was arg<T>(name): no default, index 0
RetrievedPlain == call.op = "arg_at" /\ ~call.has_default /\ call.idx = 0

\* no parse_args has bound the declared positional name: the command lines
\* tried hold no empty token
Unbound(name) ==
    name \in DOMAIN m_positional_args /\ m_positional_args[name].m_value = ""

\* the SINGLE or APPEND optional name has no recorded occurrence
Unvalued(name) ==
    /\ name \in DOMAIN m_optional_args
    /\ m_optional_args[name].m_type # FLAG
    /\ count(m_optional_args[name]) = 0

Undeclared(name) ==
    name \notin DOMAIN m_optional_args /\ name \notin DOMAIN m_positional_args

(***************************************************************************)
(* C21: arg<T>(name) without a default throws a logic error when the name  *)
(* is not declared, when it names a SINGLE or APPEND optional without an   *)
(* occurrence, and when it names a positional that no parse_args has       *)
(* bound.                                                                  *)
(***************************************************************************)
C21_NoValueThrows ==
    (RetrievedPlain /\ (Undeclared(call.name) \/ Unvalued(call.name) \/ Unbound(call.name)))
    => result.kind = "logic_error"

\* the step is a declaration that failed with a configuration error
DeclarationFailed ==
    /\ call'.op \in {"add_positional", "add_optional", "add_optional_flag"}
    /\ ncalls' = ncalls + 1
    /\ result'.kind = "logic_error"

\* the step is add_optional(flag, long_name) with a usable flag, turned down
\* for its long name
LongNameTurnedDown ==
    /\ DeclarationFailed
    /\ call'.op = "add_optional_flag"
    /\ FlagOffences(Parser, call'.flag) = {}

(***************************************************************************)
(* C22: a declaration that fails with a configuration error leaves the     *)
(* positional list, the optional set and the flag table as they were; when *)
(* add_optional(flag, long_name) is turned down for its long name, the     *)
(* flag is not in the flag table afterwards and a declaration of that flag *)
(* with an acceptable long name succeeds and enters it.                    *)
(***************************************************************************)
C22_FailedDeclarationFrame ==
    [][DeclarationFailed =>
          /\ UNCHANGED parserVars
          /\ LongNameTurnedDown =>
                /\ format_flag_name(call'.flag) \notin DOMAIN m_flags'
                /\ \A long_name \in DeclLongNames :
                      LongNameOffences(Parser', long_name) = {} =>
                         LET r == add_optional_flag(Parser', call'.flag, long_name, SINGLE) IN
                         /\ r.kind = "ok"
                         /\ r.parser.m_flags[format_flag_name(call'.flag)]
                            = format_option_name(long_name)]_vars

\* add_optional("-a", "opt1") turned down for the long name after two
\* declarations, with the flag a still free
C22_Witness ==
    /\ call.op = "add_optional_flag"
    /\ call.flag = "-a"
    /\ call.long_name = "opt1"
    /\ result = Throw("logic_error", lerrstr("invalid optional argument name: opt1"))
    /\ ncalls = 3
    /\ m_positional_order = <<"pos0">>
    /\ "a" \notin DOMAIN m_flags

\* the sequence lists every element of names once and nothing else
ListsExactly(order, names) ==
    /\ {order[i] : i \in DOMAIN order} = names
    /\ \A i, j \in DOMAIN order : order[i] = order[j] => i = j

\* the registry is well formed
RegistryWellFormed ==
    /\ DOMAIN m_positional_args \cap DOMAIN m_optional_args = {}
    /\ ListsExactly(m_positional_order, DOMAIN m_positional_args)
    /\ ListsExactly(m_optional_order, DOMAIN m_optional_args)
    /\ \A f \in DOMAIN m_flags :
          /\ m_flags[f] \in DOMAIN m_optional_args
          /\ m_optional_args[m_flags[f]].m_flag = f
    /\ \A o1, o2 \in DOMAIN m_optional_args :
          (m_optional_args[o1].m_flag # NO_FLAG
           /\ m_optional_args[o1].m_flag = m_optional_args[o2].m_flag) => o1 = o2

\* the step is a declaration that succeeded: it puts its name at the end of
\* the order list of its kind and leaves the other list alone
DeclaredInOrder ==
    (/\ call'.op \in {"add_positional", "add_optional", "add_optional_flag"}
     /\ ncalls' = ncalls + 1
     /\ result'.kind = "ok")
    => IF call'.op = "add_positional"
       THEN /\ m_positional_order' = Append(m_positional_order, call'.name)
            /\ m_optional_order' = m_optional_order
       ELSE /\ m_optional_order' =
                  Append(m_optional_order, format_option_name(call'.long_name))
            /\ m_positional_order' = m_positional_order

(***************************************************************************)
(* C23: after any sequence of add_positional/add_optional calls, failed    *)
(* ones included, no name is both a positional and an optional; each order *)
(* list holds the declared names of its kind once each, in the order of    *)
(* their declaration; every flag-table entry leads to a declared optional  *)
(* that owns that flag, and no two optionals own the same flag.            *)
(***************************************************************************)
C23_RegistryInvariant == [](RegistryWellFormed) /\ [][DeclaredInOrder]_vars

\* a positional and a flagged optional are declared, and a third declaration
\* that would put the positional's name among the optionals was turned down
C23_Witness ==
    /\ call.op = "add_optional"
    /\ call.long_name = "--pos0"
    /\ result.kind = "logic_error"
    /\ m_positional_order = <<"pos0">>
    /\ m_optional_order = <<"help", "opt0">>
    /\ "a" \in DOMAIN m_flags
    /\ m_flags["a"] = "opt0"

\* the occurrences of the optional name in token list t: "true" for each
\* reference to a FLAG, else the token after each reference, in input order
OccurrencesIn(t, name) ==
    LET refs == RefPositions(t, name) IN
    [k \in 1..Cardinality(refs) |->
        IF m_optional_args[name].m_type = FLAG
        THEN "true"
        ELSE t[NthRef(refs, k) + 1]]

(***************************************************************************)
(* C24: after every successful parse_args, a second call on the same       *)
(* parser included, the value list of each optional is the list of its     *)
(* occurrences in that call's token list; an optional the call does not    *)
(* refer to has count 0 and has_arg false.                                 *)
(***************************************************************************)
C24_ValuesOfThisCall ==
    ParsedOk =>
        \A o \in DOMAIN m_optional_args \ {"help"} :
            /\ m_optional_args[o].m_values = OccurrencesIn(Args, o)
            /\ RefPositions(Args, o) = {} =>
                  /\ arg_count(Parser, o) = Ok(0)
                  /\ has_arg(Parser, o) = Ok(FALSE)

\* the classification error of the rejected reference at position i
ErrorAt(script, t, i) ==
    IF Refers(t[i]) = ""
    THEN IF format_flag_name(t[i]) # NO_FLAG
         THEN InvalidFlag(script, t[i])
         ELSE InvalidOption(script, format_option_name(t[i]))
    ELSE IF m_optional_args[Refers(t[i])].m_type = FLAG
    THEN OnlyOnce(script, Refers(t[i]))
    ELSE IF ~HasValueAfter(t, i)
    THEN RequiresValue(script, Refers(t[i]))
    ELSE OnlyOnce(script, Refers(t[i]))

\* the outcome is the missing-positional error
IsMissingPositional(script, r) ==
    \E i \in DOMAIN m_positional_order : r = MissingPositional(script, m_positional_order[i])

(***************************************************************************)
(* C25: parse_args reports the classification error (invalid option,       *)
(* repeated option, missing value) of the earliest offending token in      *)
(* input order; the missing-positional error is reported only when the     *)
(* whole token list was classified without error, and then whenever the    *)
(* positional buffer is shorter than the list of declared positionals.     *)
(***************************************************************************)
C25_EarliestError ==
    Parsed =>
        /\ \A i \in DOMAIN Args :
              (BadRefAt(Args, i) /\ Reached(Args, i))
              => result = ErrorAt(call.argv[1], Args, i)
        /\ IsMissingPositional(call.argv[1], result) => NoOptionError(Args)
        /\ (NoOptionError(Args) /\ NoHelp(Args) /\ Len(PosBuffer(Args)) < NumPositionals)
           => result = MissingPositional(call.argv[1],
                           m_positional_order[Len(PosBuffer(Args)) + 1])

\* position i is a reference the walk gets to, to a SINGLE or APPEND
\* optional, and the token after it matches the option-name grammar
OptionAfterValueRef(t, i) ==
    /\ i < Len(t)
    /\ Reached(t, i)
    /\ IsRefAt(t, i)
    /\ TakesValue(t[i])
    /\ valid_option_name(t[i + 1])

(***************************************************************************)
(* C26: when the token after a reference to a SINGLE or APPEND optional    *)
(* matches the option-name grammar, parse_args fails with 'requires a      *)
(* value' for the referencing optional, whether the following token is     *)
(* registered, unregistered or -h/--help: it raises no 'invalid option'    *)
(* error and does not end the process with the help text.                  *)
(***************************************************************************)
C26_FollowingOptionNotResolved ==
    Parsed =>
        \A i \in DOMAIN Args :
            OptionAfterValueRef(Args, i)
            => result = RequiresValue(call.argv[1], Refers(Args[i]))

\* the other spelling of a token that refers to a registered optional: the
\* long name for its flag, the flag for its long name; any other token as is
Respell(tok) ==
    IF ~IsOptionToken(tok) \/ Refers(tok) = ""
    THEN tok
    ELSE IF format_flag_name(tok) # NO_FLAG
    THEN "--" \o Refers(tok)
    ELSE IF m_optional_args[Refers(tok)].m_flag # NO_FLAG
    THEN "-" \o m_optional_args[Refers(tok)].m_flag
    ELSE tok

\* token list t with the tokens at the positions in S respelled
RespellIn(t, S) == [i \in DOMAIN t |-> IF i \in S THEN Respell(t[i]) ELSE t[i]]

\* the positions of t that hold a token with another spelling
Respellable(t) == {i \in DOMAIN t : Respell(t[i]) # t[i]}

\* the step is parse_args, and parse_args on command line b, reading the
\* same word past the end of its argument vector, would have had the same
\* outcome and stored the same values, and on success left the same
\* leftovers
SameParseOn(b) ==
    \E r \in {parse_args(Parser, Len(b), b, call'.past_end)} :
    /\ r.outcome = result'
    /\ r.parser.m_positional_args = m_positional_args'
    /\ r.parser.m_optional_args = m_optional_args'
    /\ r.outcome.kind = "ok" =>
          /\ r.argc = argc'
          /\ SubSeq(r.argv, 2, r.argc) = SubSeq(argv', 2, argc')

(***************************************************************************)
(* C27: a registered flag and its long name are interchangeable: parse_args*)
(* on a token list and on the same list with any of its registered '-x'    *)
(* replaced by '--long-name', or the reverse, has the same outcome: the    *)
(* same error, or the same stored values in the same order and the same    *)
(* leftovers.  The word the tokenizer reads past the end of its argument   *)
(* vector does not depend on the spelling, and the respelled list has the  *)
(* same length and so the same possible words: the outcomes are compared   *)
(* word for word.                                                          *)
(***************************************************************************)
C27_SpellingsInterchangeable ==
    [][(call'.op = "parse_args" /\ ncalls' = ncalls + 1)
       => \A S \in SUBSET Respellable(Args') :
             S # {} => SameParseOn(<<call'.argv[1]>> \o RespellIn(Args', S))]_vars

\* an APPEND optional given once by its flag and once by its long name
\* holds the two values in the order given
C27_Witness ==
    /\ ParsedOk
    /\ Args = <<"-f", "x", "--filter", "y">>
    /\ m_optional_args["filter"].m_values = <<"x", "y">>
    /\ Respell("-f") = "--filter"
    /\ Respell("--filter") = "-f"

\* how many positions of t hold a reference, and how many the value of one
NumRefs(t) == Cardinality({i \in DOMAIN t : IsRefAt(t, i)})

NumValues(t) == Cardinality({i \in DOMAIN t : IsValueAt(t, i)})

(***************************************************************************)
(* C28: on every successful parse_args each token after argv[0] is         *)
(* accounted for once: the references and their values are the recorded    *)
(* occurrences of the optionals referred to, the other tokens are, in      *)
(* order, the bound positionals and then the leftovers, and the four       *)
(* counts add up to the number of tokens; so 1 <= argc_out <= argc_in and  *)
(* argc_out - 1 is the number of positional-buffer tokens less the number  *)
(* of declared positionals.                                                *)
(***************************************************************************)
C28_TokensAccounted ==
    ParsedOk =>
        /\ BoundThenLeft = PosBuffer(Args)
        /\ \A o \in DOMAIN m_optional_args :
              RefPositions(Args, o) # {} =>
                 m_optional_args[o].m_values = OccurrencesIn(Args, o)
        /\ NumRefs(Args) + NumValues(Args) + NumPositionals + (argc - 1) = Len(Args)
        /\ 1 <= argc
        /\ argc <= call.argc
        /\ argc - 1 = Len(PosBuffer(Args)) - NumPositionals

\* one reference, its value and one bound positional: nothing is left over
C28_Witness ==
    /\ ParsedOk
    /\ Args = <<"-f", "-5", "Alice">>
    /\ m_positional_order = <<"name">>
    /\ m_positional_args["name"].m_value = "Alice"
    /\ argc = 1
    /\ call.argc = 4

\* the caller's view after the step
ViewAfter ==
    [outcome |-> result', parser |-> Parser', argc |-> argc', argv |-> argv',
     scriptname |-> scriptname']

(***************************************************************************)
(* C29: the single-pass matcher with the advancing argi and the            *)
(* tokenizer-based matcher are observationally equivalent: from every      *)
(* registry and on every token list, parse_args built on the one and on    *)
(* the other gives the same outcome - the same error with the same name,   *)
(* or the same positionals, value lists and leftovers.                     *)
(***************************************************************************)
C29_MatchersEquivalent ==
    [][(call'.op = "parse_args" /\ ncalls' = ncalls + 1)
       => parse_args_single_pass(Parser, call'.argc, call'.argv) = ViewAfter]_vars

\* the last call was retrieval of an optional with a default value
RetrievedWithDefault ==
    /\ call.op = "arg_at"
    /\ call.has_default
    /\ call.name \in DOMAIN m_optional_args

(***************************************************************************)
(* C30: for an optional with N >= 1 recorded occurrences, retrieval with a *)
(* default at an index idx >= N fails with the out-of-range error, and at  *)
(* an index idx < N it reads the value recorded at idx; with no recorded   *)
(* occurrence the default is returned, whatever the index.                 *)
(***************************************************************************)
C30_DefaultOnlyWhenAbsent ==
    RetrievedWithDefault =>
        LET O == m_optional_args[call.name] IN
        IF count(O) = 0
        THEN result = Ok(call.default_val)
        ELSE IF call.idx >= count(O)
        THEN result = OutOfRange(call.idx, call.name)
        ELSE result = parse_as_type(call.T, scriptname, call.name, O.m_values[call.idx + 1])

\* retrieval with a default at index 1 of an APPEND optional given once
C30_Witness ==
    /\ RetrievedWithDefault
    /\ call.name = "filter"
    /\ call.idx = 1
    /\ m_optional_args["filter"].m_values = <<"Alice">>
    /\ result = OutOfRange(1, "filter")

====
